---------------------------- MODULE Spec2Model ----------------------------
(***************************************************************************)
(* A model of sc4s_package_tree_map: the configuration-to-model extraction *)
(* engine (the delimiter extractors, the filter, block, application and    *)
(* rewrite parsers, the per-file orchestrator), the hierarchy builder and  *)
(* the graph builder.                                                      *)
(*                                                                         *)
(* Text is a sequence of lexemes.  A lexeme is a run of word characters    *)
(* (a keyword of the DSL, an identifier or a piece of one) or a single     *)
(* other character; lexemes written side by side read as one longer word.  *)
(* The regular expressions of the source are written out node by node and  *)
(* matched lexeme by lexeme by a backtracking matcher with the priorities  *)
(* of Python's re.  Python strings are sequences, Python offsets are       *)
(* 0-based and slices are half-open, as in the source.                     *)
(*                                                                         *)
(* The state is one call of one operation: the operation (op), its         *)
(* arguments (arg), where the call stands (pc) and what it returned (ret); *)
(* and the objects that outlive a call: the parser definitions collected   *)
(* by a run (parser_objects), the name cache of each HierarchyBuilder      *)
(* (vendor_product_cache) and the hierarchy built (tree_data).             *)
(***************************************************************************)
EXTENDS Integers, Sequences, FiniteSets, TLC

VARIABLES op, arg, ret, pc, parser_objects, vendor_product_cache,
          tree_data, cache_index, cache_files, clock, rate_limiter,
          _repo_cache, requests

\* the file fetcher, its cache directory, the clock of the machine, the
\* GitHub client and the requests its last call sent to GitHub
scraper ==
    <<cache_index, cache_files, clock, rate_limiter, _repo_cache, requests>>

vars ==
    <<op, arg, ret, pc, parser_objects, vendor_product_cache, tree_data,
      scraper>>

\* the objects that outlive a call
objects == <<parser_objects, vendor_product_cache, tree_data, scraper>>

\* no fetcher and no client: nothing cached, nothing requested
NoScraper ==
    /\ cache_index = << >>
    /\ cache_files = << >>
    /\ clock = 0
    /\ rate_limiter = << >>
    /\ _repo_cache = << >>
    /\ requests = << >>

\* no run has started: nothing collected, no builder, no hierarchy
NoObjects ==
    /\ parser_objects = << >>
    /\ vendor_product_cache = << >>
    /\ tree_data = << >>
    /\ NoScraper

(***************************************************************************)
(* Python values.                                                          *)
(***************************************************************************)
\* content[i] for a 0-based offset 0 <= i < len(content)
At(content, i) == content[i + 1]

\* content[a:b] for 0 <= a, with the end clipped to len(content)
Slice(content, a, b) ==
    LET e == IF b > Len(content) THEN Len(content) ELSE b
    IN  IF a >= e THEN << >> ELSE SubSeq(content, a + 1, e)

\* every sequence over S of length at most n
SeqsUpTo(S, n) == UNION {[1..k -> S] : k \in 0..n}

\* Python's None where a string is expected
None == <<"<None>">>

\* a str of one lexeme
Str(l) == <<l>>

\* str.lower() of one lexeme
Lower(l) ==
    CASE l = "PROGRAM" -> "program"
      [] l = "Host" -> "host"
      [] l = "APPLICATION" -> "application"
      [] l = "Match" -> "match"
      [] l = "CSV" -> "csv"
      [] l = "Parser" -> "parser"
      [] OTHER -> l

\* str.lower()
LowerStr(s) == [k \in DOMAIN s |-> Lower(s[k])]

\* the items of a sequence whose indices are in keep, in order
SelectIdx(s, keep) ==
    LET F[k \in 0..Len(s)] ==
            IF k = 0 THEN << >>
            ELSE IF k \in keep THEN Append(F[k - 1], s[k]) ELSE F[k - 1]
    IN  F[Len(s)]

(***************************************************************************)
(* Regular expressions.  A pattern is a sequence of nodes; a character     *)
(* class is a set of lexemes or the complement of one.                     *)
(***************************************************************************)
\* \s
Ws == {" ", "\n"}

\* ['"]
Quote == {"'", "\""}

\* the one-character lexemes that are not word characters
NonWord == Ws \cup Quote \cup {"(", ")", "{", "}", "[", "]", ";", ",", "-", "."}

\* [...]: the lexemes of S
OneOf(S) == [neg |-> FALSE, set |-> S]

\* [^...]: the lexemes outside S
NoneOf(S) == [neg |-> TRUE, set |-> S]

\* \w
WordClass == NoneOf(NonWord)

\* [\w\-]
WordDashClass == NoneOf(NonWord \ {"-"})

InClass(l, cls) == (l \in cls.set) # cls.neg

\* a literal keyword or character
Lit(v) == [t |-> "lit", v |-> v]

\* one character of a class
One(cls) == [t |-> "one", cls |-> cls]

\* cls* (min 0) or cls+ (min 1), greedy
Rep(cls, min) == [t |-> "rep", cls |-> cls, min |-> min, greedy |-> TRUE]

\* cls*? (min 0), non-greedy
LazyRep(cls, min) == [t |-> "rep", cls |-> cls, min |-> min, greedy |-> FALSE]

\* the opening and the closing parenthesis of capture group n
Open(n) == [t |-> "open", n |-> n]

Close(n) == [t |-> "close", n |-> n]

\* (?:sub)?
Opt(sub) == [t |-> "opt", sub |-> sub]

\* (?:sub)*
Star(sub) == [t |-> "star", sub |-> sub]

\* \b
WordBoundary == [t |-> "wordb"]

\* \s* and \s+
Ws0 == Rep(OneOf(Ws), 0)

Ws1 == Rep(OneOf(Ws), 1)

\* most capture groups in one pattern
NGroups == 3

\* no group has taken part yet
NoGroups == [n \in 1..NGroups |-> [a |-> -1, b |-> -1]]

\* a pattern that did not match
NoMatch == [matched |-> FALSE, start |-> -1, end |-> -1, g |-> NoGroups]

\* the offset after the longest run of lexemes of class cls that starts at i
RunEnd(s, i, cls) ==
    IF i >= Len(s) THEN i
    ELSE CHOOSE j \in i..Len(s) :
             /\ j = Len(s) \/ ~InClass(At(s, j), cls)
             /\ \A k \in i..(j - 1) : InClass(At(s, k), cls)

\* the first alternative that matches
OrElse(r1, r2) == IF r1.matched THEN r1 ELSE r2

\* \b at offset i: a word lexeme on exactly one side
AtWordBoundary(s, i) ==
    (i > 0 /\ InClass(At(s, i - 1), WordClass))
      # (i < Len(s) /\ InClass(At(s, i), WordClass))

\* the nodes re[k..] can start at offset j: if the first of them that is
\* not a parenthesis of a group is a literal, it must stand there
CanStart(re, ic, k, s, j) ==
    \A h \in k..Len(re) :
        /\ re[h].t = "lit"
        /\ \A n \in k..(h - 1) : re[n].t \in {"open", "close"}
        => j < Len(s) /\ (IF ic THEN Lower(At(s, j)) ELSE At(s, j)) = re[h].v

\* the least number of ds, or otherwise if there is none
LeastOr(ds, otherwise) ==
    IF ds = {} THEN otherwise
    ELSE CHOOSE d \in ds : \A e \in ds : d <= e

\* the next count a lazy repetition re[k] tries after c: the least one at
\* which the node after it can start, the counts between being bound to fail
NextCount(re, ic, k, s, i, c) ==
    LeastOr({d \in (c + 1)..(Len(s) - i) :
                 CanStart(re, ic, k + 1, s, i + d)},
            Len(s) - i + 1)

RECURSIVE MatchFrom(_, _, _, _, _, _, _)
RECURSIVE TryRep(_, _, _, _, _, _, _, _)
\* the nodes re[k..] matched at offset i of s, the match having started at
\* offset i0 with the groups g; ic: re.IGNORECASE
MatchFrom(re, ic, k, s, i0, i, g) ==
    IF k > Len(re)
    THEN [matched |-> TRUE, start |-> i0, end |-> i, g |-> g]
    ELSE CASE re[k].t = "lit" ->
                IF /\ i < Len(s)
                   /\ (IF ic THEN Lower(At(s, i)) ELSE At(s, i)) = re[k].v
                THEN MatchFrom(re, ic, k + 1, s, i0, i + 1, g)
                ELSE NoMatch
           [] re[k].t = "one" ->
                IF i < Len(s) /\ InClass(At(s, i), re[k].cls)
                THEN MatchFrom(re, ic, k + 1, s, i0, i + 1, g)
                ELSE NoMatch
           [] re[k].t = "rep" ->
                TryRep(re, ic, k, s, i0, i, g,
                       IF re[k].greedy THEN RunEnd(s, i, re[k].cls) - i
                       ELSE re[k].min)
           [] re[k].t = "open" ->
                MatchFrom(re, ic, k + 1, s, i0, i,
                          [g EXCEPT ![re[k].n] = [a |-> i, b |-> -1]])
           [] re[k].t = "close" ->
                MatchFrom(re, ic, k + 1, s, i0, i,
                          [g EXCEPT ![re[k].n].b = i])
           [] re[k].t = "opt" ->
                OrElse(MatchFrom(re[k].sub \o SubSeq(re, k + 1, Len(re)),
                                 ic, 1, s, i0, i, g),
                       MatchFrom(re, ic, k + 1, s, i0, i, g))
           [] re[k].t = "star" ->
                OrElse(MatchFrom(re[k].sub \o SubSeq(re, k, Len(re)),
                                 ic, 1, s, i0, i, g),
                       MatchFrom(re, ic, k + 1, s, i0, i, g))
           [] re[k].t = "wordb" ->
                IF AtWordBoundary(s, i)
                THEN MatchFrom(re, ic, k + 1, s, i0, i, g)
                ELSE NoMatch

\* the repetition re[k] taking c lexemes, then fewer (greedy) or more (lazy)
TryRep(re, ic, k, s, i0, i, g, c) ==
    IF c < re[k].min \/ c > RunEnd(s, i, re[k].cls) - i
    THEN NoMatch
    ELSE OrElse(MatchFrom(re, ic, k + 1, s, i0, i + c, g),
                TryRep(re, ic, k, s, i0, i, g,
                       IF re[k].greedy THEN c - 1
                       ELSE NextCount(re, ic, k, s, i, c)))

\* Pattern.match: the pattern tried at offset i
MatchAt(re, ic, s, i) == MatchFrom(re, ic, 1, s, i, i, NoGroups)

\* the match at the least offset among the attempts ms, one per offset
Leftmost(ms) ==
    IF \A j \in DOMAIN ms : ~ms[j].matched THEN NoMatch
    ELSE ms[CHOOSE j \in DOMAIN ms :
                /\ ms[j].matched
                /\ \A k \in DOMAIN ms : ms[k].matched => j <= k]

\* Pattern.search from offset i: the leftmost match
Search(re, ic, s, i) ==
    Leftmost([j \in i..Len(s) |-> MatchAt(re, ic, s, j)])

RECURSIVE FindIter(_, _, _, _)
\* Pattern.finditer from offset i: the matches, leftmost first, none
\* overlapping
FindIter(re, ic, s, i) ==
    LET m == Search(re, ic, s, i)
    IN  IF ~m.matched THEN << >>
        ELSE <<m>> \o FindIter(re, ic, s,
                               IF m.end > m.start THEN m.end ELSE m.end + 1)

\* match.group(n), n >= 1
Group(s, m, n) ==
    IF m.g[n].b < 0 THEN None ELSE Slice(s, m.g[n].a, m.g[n].b)

\* match.group(0)
Group0(s, m) == Slice(s, m.start, m.end)

(***************************************************************************)
(* Delimiter extractors.                                                   *)
(***************************************************************************)
RECURSIVE BraceLoop(_, _, _)
\* the while loop of _extract_balanced_braces: (pos, brace_count) at its exit
BraceLoop(content, pos, brace_count) ==
    IF pos < Len(content) /\ brace_count > 0
    THEN BraceLoop(content, pos + 1,
                   IF At(content, pos) = "{" THEN brace_count + 1
                   ELSE IF At(content, pos) = "}" THEN brace_count - 1
                   ELSE brace_count)
    ELSE [pos |-> pos, brace_count |-> brace_count]

RECURSIVE BraceLoopFlat(_, _, _)
\* a loop that forgets to count nested openers
BraceLoopFlat(content, pos, brace_count) ==
    IF pos < Len(content) /\ brace_count > 0
    THEN BraceLoopFlat(content, pos + 1,
                       IF At(content, pos) = "}" THEN brace_count - 1
                       ELSE brace_count)
    ELSE [pos |-> pos, brace_count |-> brace_count]

_extract_balanced_braces_flat(content, start_pos) ==
    IF start_pos >= Len(content) \/ At(content, start_pos) # "{"
    THEN << >>
    ELSE LET r == BraceLoopFlat(content, start_pos + 1, 1)
         IN  IF r.brace_count = 0
             THEN Slice(content, start_pos + 1, r.pos - 1)
             ELSE << >>

_extract_balanced_braces(content, start_pos) ==
    IF start_pos >= Len(content) \/ At(content, start_pos) # "{"
    THEN << >>
    ELSE LET r == BraceLoop(content, start_pos + 1, 1)
         IN  IF r.brace_count = 0
             THEN Slice(content, start_pos + 1, r.pos - 1)
             ELSE << >>

RECURSIVE ParenLoop(_, _, _)
\* the while loop of _extract_balanced_parens: (pos, paren_count) at its exit
ParenLoop(content, pos, paren_count) ==
    IF pos < Len(content) /\ paren_count > 0
    THEN ParenLoop(content, pos + 1,
                   IF At(content, pos) = "(" THEN paren_count + 1
                   ELSE IF At(content, pos) = ")" THEN paren_count - 1
                   ELSE paren_count)
    ELSE [pos |-> pos, paren_count |-> paren_count]

_extract_balanced_parens(content, start_pos) ==
    IF start_pos >= Len(content) \/ At(content, start_pos) # "("
    THEN << >>
    ELSE LET r == ParenLoop(content, start_pos + 1, 1)
         IN  IF r.paren_count = 0
             THEN Slice(content, start_pos + 1, r.pos - 1)
             ELSE << >>

(***************************************************************************)
(* Filter expression parser.                                               *)
(***************************************************************************)
\* FilterExpression(filter_type, pattern, match_type, flags, raw)
FilterExpression(filter_type, pattern, match_type, flags, raw) ==
    [filter_type |-> filter_type, pattern |-> pattern,
     match_type |-> match_type, flags |-> flags, raw |-> raw]

\* type\s*\(\s*(\w+)\s*\), the group being group n
TypeClause(n) ==
    <<Lit("type"), Ws0, Lit("("), Ws0,
      Open(n), Rep(WordClass, 1), Close(n), Ws0, Lit(")")>>

\* flags\s*\(\s*([^)]+)\s*\), the group being group n
FlagsClause(n) ==
    <<Lit("flags"), Ws0, Lit("("), Ws0,
      Open(n), Rep(NoneOf({")"}), 1), Close(n), Ws0, Lit(")")>>

\* PROGRAM_PATTERN, MESSAGE_PATTERN and HOST_PATTERN differ in the keyword:
\* kw\s*\(\s*['"]([^'"]+)['"]\s*(?:type...)?\s*(?:flags...)?\s*\)
PredicatePattern(kw) ==
    <<Lit(kw), Ws0, Lit("("), Ws0, One(OneOf(Quote)),
      Open(1), Rep(NoneOf(Quote), 1), Close(1), One(OneOf(Quote)), Ws0,
      Opt(TypeClause(2)), Ws0, Opt(FlagsClause(3)), Ws0, Lit(")")>>

PROGRAM_PATTERN == PredicatePattern("program")

MESSAGE_PATTERN == PredicatePattern("message")

HOST_PATTERN == PredicatePattern("host")

\* (\w+)\s*\(\s*['"]([^'"]+)['"]\s*([^)]*)\)
FILTER_FUNC_PATTERN ==
    <<Open(1), Rep(WordClass, 1), Close(1), Ws0, Lit("("), Ws0,
      One(OneOf(Quote)), Open(2), Rep(NoneOf(Quote), 1), Close(2),
      One(OneOf(Quote)), Ws0,
      Open(3), Rep(NoneOf({")"}), 0), Close(3), Lit(")")>>

\* str.split(','): the pieces between the commas
Split(s) ==
    LET F[k \in 0..Len(s)] ==
            IF k = 0 THEN <<<< >>>>
            ELSE IF s[k] = "," THEN Append(F[k - 1], << >>)
            ELSE [F[k - 1] EXCEPT ![Len(F[k - 1])] = Append(@, s[k])]
    IN  F[Len(s)]

\* str.strip(chars): s without its leading and trailing lexemes of S
Strip(s, S) ==
    IF \A k \in 1..Len(s) : s[k] \in S THEN << >>
    ELSE LET a == CHOOSE k \in 1..Len(s) :
                      s[k] \notin S /\ \A h \in 1..(k - 1) : s[h] \in S
             b == CHOOSE k \in 1..Len(s) :
                      s[k] \notin S /\ \A h \in (k + 1)..Len(s) : s[h] \in S
         IN  SubSeq(s, a, b)

\* a _parse_flags that keeps the quotes of a quoted flag
_parse_flags_quoted(flags_str) ==
    IF flags_str = << >> THEN << >>
    ELSE LET pieces == Split(flags_str)
             flags == [k \in 1..Len(pieces) |-> Strip(pieces[k], Ws)]
         IN  SelectIdx(flags, {k \in 1..Len(flags) : flags[k] # << >>})

_parse_flags(flags_str) ==
    IF flags_str = << >> THEN << >>
    ELSE LET pieces == Split(flags_str)
             flags == [k \in 1..Len(pieces) |->
                          Strip(Strip(pieces[k], Ws), Quote)]
         IN  SelectIdx(flags, {k \in 1..Len(flags) : flags[k] # << >>})

\* x or default, for a match group x
OrDefault(x, default) == IF x = None THEN default ELSE x

\* the body shared by _parse_program_filters, _parse_message_filters and
\* _parse_host_filters: one FilterExpression per match of the pattern
ParsePredicateFilters(kw, pattern, content) ==
    LET ms == FindIter(pattern, TRUE, content, 0)
    IN  [k \in 1..Len(ms) |->
            FilterExpression(Str(kw),
                Group(content, ms[k], 1),
                OrDefault(Group(content, ms[k], 2), Str("string")),
                _parse_flags(OrDefault(Group(content, ms[k], 3), << >>)),
                Group0(content, ms[k]))]

_parse_program_filters(content) ==
    ParsePredicateFilters("program", PROGRAM_PATTERN, content)

_parse_message_filters(content) ==
    ParsePredicateFilters("message", MESSAGE_PATTERN, content)

_parse_host_filters(content) ==
    ParsePredicateFilters("host", HOST_PATTERN, content)

\* the names _parse_generic_filters skips
ReservedNames == {Str("program"), Str("message"), Str("host")}

\* one match of FILTER_FUNC_PATTERN turned into a FilterExpression
GenericFilter(content, m) ==
    LET options == Group(content, m, 3)
        type_match == IF options # << >>
                      THEN Search(TypeClause(1), FALSE, options, 0)
                      ELSE NoMatch
        flags_match == IF options # << >>
                       THEN Search(FlagsClause(1), FALSE, options, 0)
                       ELSE NoMatch
    IN  FilterExpression(LowerStr(Group(content, m, 1)),
            Group(content, m, 2),
            IF type_match.matched
            THEN Group(options, type_match, 1) ELSE Str("string"),
            IF flags_match.matched
            THEN _parse_flags(Group(options, flags_match, 1)) ELSE << >>,
            Group0(content, m))

_parse_generic_filters(content) ==
    LET ms == FindIter(FILTER_FUNC_PATTERN, TRUE, content, 0)
        kept == SelectIdx(ms, {k \in 1..Len(ms) :
                    LowerStr(Group(content, ms[k], 1)) \notin ReservedNames})
    IN  [k \in 1..Len(kept) |-> GenericFilter(content, kept[k])]

\* a parse_filter_block that always adds the generic predicates
parse_filter_block_always_generic(content) ==
    _parse_program_filters(content) \o _parse_message_filters(content)
      \o _parse_host_filters(content) \o _parse_generic_filters(content)

parse_filter_block(content) ==
    LET filters == _parse_program_filters(content)
                     \o _parse_message_filters(content)
                     \o _parse_host_filters(content)
    IN  IF filters = << >> THEN _parse_generic_filters(content) ELSE filters

(***************************************************************************)
(* Application parser.                                                     *)
(***************************************************************************)
\* application\s+([\w\-]+)\s*\[([\w\-]+)\]\s*\{
APPLICATION_START_PATTERN ==
    <<Lit("application"), Ws1,
      Open(1), Rep(WordDashClass, 1), Close(1), Ws0, Lit("["),
      Open(2), Rep(WordDashClass, 1), Close(2), Lit("]"), Ws0, Lit("{")>>

\* parser\s*\{\s*([\w\-]+)\s*\(\s*\)\s*;?\s*\}
PARSER_REF_PATTERN ==
    <<Lit("parser"), Ws0, Lit("{"), Ws0,
      Open(1), Rep(WordDashClass, 1), Close(1), Ws0, Lit("("), Ws0,
      Lit(")"), Ws0, Opt(<<Lit(";")>>), Ws0, Lit("}")>>

\* filter\s*\{([^}]*(?:\{[^}]*\}[^}]*)*)\}
FilterBlockPattern ==
    <<Lit("filter"), Ws0, Lit("{"),
      Open(1), Rep(NoneOf({"}"}), 0),
      Star(<<Lit("{"), Rep(NoneOf({"}"}), 0), Lit("}"),
             Rep(NoneOf({"}"}), 0)>>),
      Close(1), Lit("}")>>

\* an extract_applications that cuts the body at the first closing brace
extract_applications_naive(content) ==
    LET ms == FindIter(APPLICATION_START_PATTERN, TRUE, content, 0)
        found == [k \in 1..Len(ms) |->
                     [app_name |-> Group(content, ms[k], 1),
                      app_type |-> Group(content, ms[k], 2),
                      app_content |->
                          _extract_balanced_braces_flat(content,
                                                        ms[k].end - 1)]]
    IN  SelectIdx(found, {k \in 1..Len(found) :
                              found[k].app_content # << >>})

\* the (app_name, app_type, app_content) tuples of the declarations whose
\* balanced body is not empty
extract_applications(content) ==
    LET ms == FindIter(APPLICATION_START_PATTERN, TRUE, content, 0)
        found == [k \in 1..Len(ms) |->
                     [app_name |-> Group(content, ms[k], 1),
                      app_type |-> Group(content, ms[k], 2),
                      app_content |->
                          _extract_balanced_braces(content, ms[k].end - 1)]]
    IN  SelectIdx(found, {k \in 1..Len(found) :
                              found[k].app_content # << >>})

extract_filter_blocks(content) ==
    LET ms == FindIter(FilterBlockPattern, FALSE, content, 0)
    IN  [k \in 1..Len(ms) |-> Group(content, ms[k], 1)]

RECURSIVE Flatten(_)
\* filters.extend(...) over a list of lists
Flatten(lists) ==
    IF lists = << >> THEN << >> ELSE Head(lists) \o Flatten(Tail(lists))

_extract_filters(content) ==
    LET filter_blocks == extract_filter_blocks(content)
    IN  Flatten([k \in 1..Len(filter_blocks) |->
                    parse_filter_block(filter_blocks[k])])

_extract_parser_reference(content) ==
    LET match == Search(PARSER_REF_PATTERN, TRUE, content, 0)
    IN  IF match.matched THEN Group(content, match, 1) ELSE None

\* Application(name, app_type, filters, parser_reference)
parse_application(app_name, app_type, app_content) ==
    [name |-> app_name,
     app_type |-> app_type,
     filters |-> _extract_filters(app_content),
     parser_reference |-> _extract_parser_reference(app_content)]

(***************************************************************************)
(* Block parser extractor.                                                 *)
(***************************************************************************)
\* block\s+parser\s+([\w\-]+)\s*\(\s*\)\s*\{(.*?)\n\s*\};  with re.DOTALL
BLOCK_PARSER_PATTERN ==
    <<Lit("block"), Ws1, Lit("parser"), Ws1,
      Open(1), Rep(WordDashClass, 1), Close(1), Ws0, Lit("("), Ws0,
      Lit(")"), Ws0, Lit("{"),
      Open(2), LazyRep(NoneOf({}), 0), Close(2),
      Lit("\n"), Ws0, Lit("}"), Lit(";")>>

\* the (parser_name, parser_content) tuples, one per match
extract_block_parsers(content) ==
    LET ms == FindIter(BLOCK_PARSER_PATTERN, TRUE, content, 0)
    IN  [k \in 1..Len(ms) |->
            [parser_name |-> Group(content, ms[k], 1),
             parser_content |-> Group(content, ms[k], 2)]]

(***************************************************************************)
(* Data model records and the per-file orchestrator.  A call that can      *)
(* raise yields an outcome: the value returned, or the exception raised.   *)
(***************************************************************************)
Return(v) == [raised |-> FALSE, exc |-> "", msg |-> None, value |-> v]

\* msg is str(e)
Raise(exc, msg) ==
    [raised |-> TRUE, exc |-> exc, msg |-> Str(msg), value |-> << >>]

\* Metadata(): every field None
Metadata ==
    [index |-> None, sourcetype |-> None, vendor |-> None, product |-> None,
     template |-> None, class_ |-> None]

ParserDefinitionFields ==
    {"name", "parser_type", "file_path", "metadata", "applications",
     "nested_parsers", "conditional_rewrites", "raw_config", "parse_error"}

ParserDefinitionRequired == {"name", "parser_type", "file_path"}

ParserDefinitionDefaults ==
    [metadata |-> Metadata, applications |-> << >>,
     nested_parsers |-> << >>, conditional_rewrites |-> << >>,
     raw_config |-> None, parse_error |-> None]

\* ParserDefinition(**kwargs): the dataclass constructor accepts its fields
\* as keywords and nothing else
ParserDefinition(kwargs) ==
    IF ~(DOMAIN kwargs \subseteq ParserDefinitionFields)
    THEN Raise("TypeError",
               "__init__() got an unexpected keyword argument")
    ELSE IF ~(ParserDefinitionRequired \subseteq DOMAIN kwargs)
    THEN Raise("TypeError",
               "__init__() missing required positional arguments")
    ELSE Return([f \in ParserDefinitionFields |->
                    IF f \in DOMAIN kwargs THEN kwargs[f]
                    ELSE ParserDefinitionDefaults[f]])

\* self.filter_parser.extract_named_filters(content): FilterParser defines
\* no attribute of that name
extract_named_filters(content) ==
    Raise("AttributeError",
          "'FilterParser' object has no attribute 'extract_named_filters'")

\* NamedFilter(...): the data model defines no class of that name
NamedFilter(name, filters, raw_content) ==
    Raise("NameError", "name 'NamedFilter' is not defined")

\* the first outcome that raised, or the values of all of them
AllOrFirstRaise(outcomes) ==
    IF \E k \in 1..Len(outcomes) : outcomes[k].raised
    THEN outcomes[CHOOSE k \in 1..Len(outcomes) :
                      /\ outcomes[k].raised
                      /\ \A h \in 1..(k - 1) : ~outcomes[h].raised]
    ELSE Return([k \in 1..Len(outcomes) |-> outcomes[k].value])

\* parse_application on each (app_name, app_type, app_content) tuple
ParsedApplications(applications) ==
    [k \in 1..Len(applications) |->
        parse_application(applications[k].app_name,
                          applications[k].app_type,
                          applications[k].app_content)]

\* the parsed applications that reference the parser or bear its name
MatchingAmong(parser_name, app) ==
    SelectIdx(app, {k \in 1..Len(app) :
                        \/ app[k].parser_reference = parser_name
                        \/ app[k].name = parser_name})

_find_matching_applications(parser_name, applications) ==
    MatchingAmong(parser_name, ParsedApplications(applications))

\* the tuples of the applications whose parser reference is set and is not
\* among the parser names
OrphansAmong(parser_names, applications, app) ==
    SelectIdx(applications,
              {k \in 1..Len(app) :
                   /\ app[k].parser_reference \notin {None, << >>}
                   /\ app[k].parser_reference \notin parser_names})

_find_orphan_applications(block_parsers, applications) ==
    OrphansAmong({block_parsers[k].parser_name :
                      k \in 1..Len(block_parsers)},
                 applications, ParsedApplications(applications))

\* the named-filter loop of _build_parser_definitions
NamedFilters(named_filters_raw) ==
    AllOrFirstRaise(
        [k \in 1..Len(named_filters_raw) |->
            NamedFilter(named_filters_raw[k].filter_name,
                        parse_filter_block(
                            named_filters_raw[k].filter_content),
                        named_filters_raw[k].filter_content)])

\* The body of the block-parser loop.  The call also passes parser_type,
\* metadata, nested_parsers and conditional_rewrites, all of them fields of
\* the record; with them or without them the constructor rejects the call
\* for its named_filters keyword.
BlockParserRecord(file_path, block, applications, named_filters, raw_content) ==
    ParserDefinition(
        [name |-> block.parser_name,
         file_path |-> file_path,
         applications |->
             _find_matching_applications(block.parser_name, applications),
         named_filters |-> named_filters,
         raw_config |-> raw_content])

\* the block-parser loop
BlockParserRecords(file_path, block_parsers, applications, named_filters, raw_content) ==
    AllOrFirstRaise(
        [k \in 1..Len(block_parsers) |->
            BlockParserRecord(file_path, block_parsers[k], applications,
                              named_filters, raw_content)])

\* the body of the loop over the orphan applications
StubRecord(file_path, orphan, named_filters) ==
    ParserDefinition(
        [name |-> orphan.app_name,
         parser_type |-> Str("reference"),
         file_path |-> file_path,
         applications |->
             <<parse_application(orphan.app_name, orphan.app_type,
                                 orphan.app_content)>>,
         named_filters |-> named_filters])

\* the loop over the orphan applications
StubRecords(file_path, orphan_apps, named_filters) ==
    AllOrFirstRaise(
        [k \in 1..Len(orphan_apps) |->
            StubRecord(file_path, orphan_apps[k], named_filters)])

\* parser_defs after the three loops, unless one raised: then the exception
\* of the first that did
FirstRaiseOrRecords(named, blocks, stubs) ==
    IF named.raised THEN named
    ELSE IF blocks.raised THEN blocks
    ELSE IF stubs.raised THEN stubs
    ELSE Return(blocks.value \o stubs.value)

\* _build_parser_definitions once the named filters are parsed
BuildRecords(file_path, block_parsers, applications, named, raw_content) ==
    FirstRaiseOrRecords(
        named,
        BlockParserRecords(file_path, block_parsers, applications,
                           named.value, raw_content),
        StubRecords(file_path,
                    _find_orphan_applications(block_parsers, applications),
                    named.value))

_build_parser_definitions(file_path, block_parsers, applications, named_filters_raw, raw_content) ==
    BuildRecords(file_path, block_parsers, applications,
                 NamedFilters(named_filters_raw), raw_content)

\* parse_file from line 54 on, the three extractions done
BuildUnlessRaised(file_path, block_parsers, applications, named_filters_raw, raw_content) ==
    IF named_filters_raw.raised THEN named_filters_raw
    ELSE _build_parser_definitions(file_path, block_parsers, applications,
                                   named_filters_raw.value, raw_content)

\* the statements of parse_file inside try
ParseFileTry(file_path, content, extract_raw) ==
    BuildUnlessRaised(file_path,
                      extract_block_parsers(content),
                      extract_applications(content),
                      extract_named_filters(content),
                      IF extract_raw THEN content ELSE None)

\* the except clause of parse_file: one error record for an exception
ExceptErrorRecord(file_path, body) ==
    IF ~body.raised THEN body
    ELSE Return(<<ParserDefinition(
                      [name |-> <<"ERROR_">> \o file_path,
                       parser_type |-> Str("unknown"),
                       file_path |-> file_path,
                       parse_error |-> body.msg]).value>>)

\* a parse_file without its except clause
parse_file_no_except(file_path, content, extract_raw) ==
    ParseFileTry(file_path, content, extract_raw)

parse_file(file_path, content, extract_raw) ==
    ExceptErrorRecord(file_path,
                      ParseFileTry(file_path, content, extract_raw))

RECURSIVE ParseFilesLoop(_, _, _)
RECURSIVE ParseFilesUntilError(_, _, _)

\* all_parsers.extend(parsers), then the files left
Extend(all_parsers, parsers, files, extract_raw) ==
    IF parsers.raised THEN parsers
    ELSE ParseFilesLoop(files, extract_raw, all_parsers \o parsers.value)

\* the loop of parse_multiple_files over the files left, all_parsers so far
ParseFilesLoop(files, extract_raw, all_parsers) ==
    IF files = << >> THEN Return(all_parsers)
    ELSE Extend(all_parsers,
                parse_file(Head(files).file_path, Head(files).content,
                           extract_raw),
                Tail(files), extract_raw)

\* an extend that gives up on the files left after an error record
ExtendUntilError(all_parsers, parsers, files, extract_raw) ==
    IF parsers.raised THEN parsers
    ELSE IF \E k \in 1..Len(parsers.value) :
                parsers.value[k].parse_error # None
    THEN Return(all_parsers \o parsers.value)
    ELSE ParseFilesUntilError(files, extract_raw,
                              all_parsers \o parsers.value)

ParseFilesUntilError(files, extract_raw, all_parsers) ==
    IF files = << >> THEN Return(all_parsers)
    ELSE ExtendUntilError(all_parsers,
                          parse_file(Head(files).file_path,
                                     Head(files).content, extract_raw),
                          Tail(files), extract_raw)

\* a parse_multiple_files that stops at the first file that failed
parse_multiple_files_until_error(files, extract_raw) ==
    ParseFilesUntilError(files, extract_raw, << >>)

parse_multiple_files(files, extract_raw) ==
    ParseFilesLoop(files, extract_raw, << >>)

(***************************************************************************)
(* Rewrite parser: the metadata of an r_set_splunk_dest_default call.      *)
(***************************************************************************)
\* r_set_splunk_dest_default\s*\(
SPLUNK_DEST_START_PATTERN == <<Lit("r_set_splunk_dest_default"), Ws0, Lit("(")>>

\* (\w+)\s*\(\s*['"]([^'"]+)['"]\s*\)
FIELD_PATTERN ==
    <<Open(1), Rep(WordClass, 1), Close(1), Ws0, Lit("("), Ws0, One(OneOf(Quote)),
      Open(2), Rep(NoneOf(Quote), 1), Close(2), One(OneOf(Quote)), Ws0,
      Lit(")")>>

\* fields.get(key): the value last stored under the key, or None
FieldsGet(fields, key) ==
    IF \A k \in 1..Len(fields) : fields[k].field_name # key THEN None
    ELSE fields[CHOOSE k \in 1..Len(fields) :
                    /\ fields[k].field_name = key
                    /\ \A h \in (k + 1)..Len(fields) :
                           fields[h].field_name # key].field_value

\* Metadata(index=fields.get('index'), ..., class_=fields.get('class'))
MetadataOfFields(fields) ==
    [index |-> FieldsGet(fields, <<"index">>),
     sourcetype |-> FieldsGet(fields, <<"sourcetype">>),
     vendor |-> FieldsGet(fields, <<"vendor">>),
     product |-> FieldsGet(fields, <<"product">>),
     template |-> FieldsGet(fields, <<"template">>),
     class_ |-> FieldsGet(fields, <<"class">>)]

\* the field(value) pairs of a text, one per match of FIELD_PATTERN
FieldPairs(body) ==
    LET ms == FindIter(FIELD_PATTERN, FALSE, body, 0)
    IN  [k \in 1..Len(ms) |->
            [field_name |-> Group(body, ms[k], 1),
             field_value |-> Group(body, ms[k], 2)]]

\* parse_r_set_splunk_dest_default from line 64 on
MetadataOfBody(body) ==
    IF body = << >> THEN Metadata ELSE MetadataOfFields(FieldPairs(body))

\* parse_r_set_splunk_dest_default from line 56 on
MetadataAfter(content, match) ==
    IF ~match.matched THEN Metadata
    ELSE MetadataOfBody(_extract_balanced_parens(content, match.end - 1))

\* a parse_r_set_splunk_dest_default that reads the pairs of the whole text
\* after the call's name
parse_r_set_splunk_dest_default_unbalanced(content) ==
    MetadataOfFields(FieldPairs(content))

parse_r_set_splunk_dest_default(content) ==
    MetadataAfter(content, Search(SPLUNK_DEST_START_PATTERN, FALSE, content, 0))

(***************************************************************************)
(* The hierarchy builder.  Parser, vendor and product names are spelled    *)
(* character by character: prefixes, the first underscore, the length of a *)
(* product and the case of each letter decide the result.                  *)
(***************************************************************************)
Digits == <<"0", "1", "2", "3", "4", "5", "6", "7", "8", "9">>

Capitals ==
    <<"A", "B", "C", "D", "E", "F", "G", "H", "I", "J", "K", "L", "M",
      "N", "O", "P", "Q", "R", "S", "T", "U", "V", "W", "X", "Y", "Z">>

Smalls ==
    <<"a", "b", "c", "d", "e", "f", "g", "h", "i", "j", "k", "l", "m",
      "n", "o", "p", "q", "r", "s", "t", "u", "v", "w", "x", "y", "z">>

\* the characters of names in the order of their code points
CodePoints == <<" ", "-">> \o Digits \o Capitals \o <<"_">> \o Smalls

Range(s) == {s[k] : k \in DOMAIN s}

\* ord(c), up to an order-preserving renumbering
Ord(c) == CHOOSE k \in DOMAIN CodePoints : CodePoints[k] = c

\* a < b for two str
StrLess(a, b) ==
    \E k \in 1..Len(b) :
        /\ \A h \in 1..(k - 1) : h <= Len(a) /\ a[h] = b[h]
        /\ k > Len(a) \/ Ord(a[k]) < Ord(b[k])

\* sorted(keys) for a set of str
Sorted(keys) ==
    LET Place(x) == Cardinality({y \in keys : StrLess(y, x)}) + 1
    IN  [k \in 1..Cardinality(keys) |-> CHOOSE x \in keys : Place(x) = k]

\* a value that counts as true in a condition: neither None nor ""
Truthy(s) == s # None /\ s # << >>

ToUpper(c) ==
    IF c \in Range(Smalls)
    THEN Capitals[CHOOSE k \in DOMAIN Smalls : Smalls[k] = c] ELSE c

ToLower(c) ==
    IF c \in Range(Capitals)
    THEN Smalls[CHOOSE k \in DOMAIN Capitals : Capitals[k] = c] ELSE c

Cased(c) == c \in Range(Smalls) \cup Range(Capitals)

\* str.lower()
lower(s) == [k \in DOMAIN s |-> ToLower(s[k])]

\* str.upper()
upper(s) == [k \in DOMAIN s |-> ToUpper(s[k])]

\* str.title(): a letter that follows a letter is lowered, any other letter
\* is raised
title(s) ==
    [k \in DOMAIN s |->
        IF k > 1 /\ Cased(s[k - 1]) THEN ToLower(s[k]) ELSE ToUpper(s[k])]

\* str.replace(old, new) for single characters
replace(s, old, new) == [k \in DOMAIN s |-> IF s[k] = old THEN new ELSE s[k]]

\* str.startswith(prefix)
startswith(s, prefix) ==
    Len(prefix) <= Len(s) /\ SubSeq(s, 1, Len(prefix)) = prefix

VENDOR_MAPPINGS ==
    {<<<<"f", "5">>, <<"F", "5", " ", "N", "e", "t", "w", "o", "r", "k", "s">>>>,
     <<<<"v", "m", "w", "a", "r", "e">>, <<"V", "M", "w", "a", "r", "e">>>>,
     <<<<"c", "i", "s", "c", "o">>, <<"C", "i", "s", "c", "o">>>>,
     <<<<"j", "u", "n", "i", "p", "e", "r">>, <<"J", "u", "n", "i", "p", "e", "r", " ", "N", "e", "t", "w", "o", "r", "k", "s">>>>,
     <<<<"p", "a", "l", "o", "a", "l", "t", "o">>, <<"P", "a", "l", "o", " ", "A", "l", "t", "o", " ", "N", "e", "t", "w", "o", "r", "k", "s">>>>,
     <<<<"c", "h", "e", "c", "k", "p", "o", "i", "n", "t">>, <<"C", "h", "e", "c", "k", " ", "P", "o", "i", "n", "t">>>>,
     <<<<"m", "i", "c", "r", "o", "s", "o", "f", "t">>, <<"M", "i", "c", "r", "o", "s", "o", "f", "t">>>>}

special_cases ==
    {<<<<"b", "i", "g", "i", "p">>, <<"B", "I", "G", "-", "I", "P">>>>,
     <<<<"a", "s", "a">>, <<"A", "S", "A">>>>,
     <<<<"i", "o", "s">>, <<"I", "O", "S">>>>,
     <<<<"n", "x", "o", "s">>, <<"N", "X", "-", "O", "S">>>>,
     <<<<"i", "o", "s", "x", "e">>, <<"I", "O", "S", "-", "X", "E">>>>}

\* key in table, table[key] for a dict written as a set of (key, value)
HasKey(table, key) == \E e \in table : e[1] = key

Lookup(table, key) == (CHOOSE e \in table : e[1] = key)[2]

prefixes ==
    <<<<"a", "p", "p", "-", "s", "y", "s", "l", "o", "g", "-">>, <<"a", "p", "p", "-", "j", "s", "o", "n", "-">>, <<"a", "p", "p", "-", "c", "e", "f", "-">>, <<"a", "p", "p", "-", "l", "e", "e", "f", "-">>,
      <<"a", "p", "p", "-", "r", "a", "w", "-">>, <<"a", "p", "p", "-", "n", "e", "t", "s", "o", "u", "r", "c", "e", "-">>>>

\* the name without the first prefix of the list it starts with
StripPrefix(name) ==
    IF \A k \in DOMAIN prefixes : ~startswith(name, prefixes[k]) THEN name
    ELSE LET k == CHOOSE i \in DOMAIN prefixes :
                      /\ startswith(name, prefixes[i])
                      /\ \A j \in 1..(i - 1) : ~startswith(name, prefixes[j])
         IN  SubSeq(name, Len(prefixes[k]) + 1, Len(name))

SplitLastUnderscore(name) ==
    IF "_" \in Range(name)
    THEN LET u == CHOOSE k \in DOMAIN name :
                      name[k] = "_" /\ \A h \in (k + 1)..Len(name) : name[h] # "_"
         IN  <<SubSeq(name, 1, u - 1), SubSeq(name, u + 1, Len(name))>>
    ELSE <<name, <<"d", "e", "f", "a", "u", "l", "t">>>>

\* name.split('_', 1) when '_' in name, else (name, 'default')
SplitFirstUnderscore(name) ==
    IF "_" \in Range(name)
    THEN LET u == CHOOSE k \in DOMAIN name :
                      name[k] = "_" /\ \A h \in 1..(k - 1) : name[h] # "_"
         IN  <<SubSeq(name, 1, u - 1), SubSeq(name, u + 1, Len(name))>>
    ELSE <<name, <<"d", "e", "f", "a", "u", "l", "t">>>>

_extract_from_name(name) == SplitFirstUnderscore(StripPrefix(name))

_normalize_vendor_name(vendor) ==
    IF HasKey(VENDOR_MAPPINGS, lower(vendor))
    THEN Lookup(VENDOR_MAPPINGS, lower(vendor))
    ELSE title(replace(replace(vendor, "_", " "), "-", " "))

_normalize_product_name_under4(product) ==
    IF HasKey(special_cases, lower(product))
    THEN Lookup(special_cases, lower(product))
    ELSE IF Len(product) < 4 THEN upper(replace(product, "_", "-"))
    ELSE title(replace(product, "_", "-"))

_normalize_product_name(product) ==
    IF HasKey(special_cases, lower(product))
    THEN Lookup(special_cases, lower(product))
    ELSE IF Len(product) <= 4 THEN upper(replace(product, "_", "-"))
    ELSE title(replace(product, "_", "-"))

\* one field of the name-derived pair validated against metadata: the
\* metadata value when both are there and differ beyond case
ValidatedField(fromMetadata, fromName) ==
    IF Truthy(fromMetadata) /\ Truthy(fromName)
         /\ lower(fromMetadata) # lower(fromName)
    THEN fromMetadata ELSE fromName

Validated(metadata, pair) ==
    <<ValidatedField(metadata.vendor, pair[1]),
      ValidatedField(metadata.product, pair[2])>>

\* strategy 1, metadata, else strategy 2, the name validated against
\* metadata
Strategies(parser) ==
    IF Truthy(parser.metadata.vendor) /\ Truthy(parser.metadata.product)
    THEN <<parser.metadata.vendor, parser.metadata.product>>
    ELSE Validated(parser.metadata, _extract_from_name(parser.name))

Normalized(pair) ==
    <<IF Truthy(pair[1]) THEN _normalize_vendor_name(pair[1]) ELSE pair[1],
      IF Truthy(pair[2]) THEN _normalize_product_name(pair[2]) ELSE pair[2]>>

extract_vendor_product_uncached(cache, parser) ==
    Normalized(Strategies(parser))

\* extract_vendor_product on a builder whose vendor_product_cache is cache:
\* the (vendor, product) returned
extract_vendor_product(cache, parser) ==
    IF parser.name \in DOMAIN cache THEN cache[parser.name]
    ELSE Normalized(Strategies(parser))

\* the cache with self.vendor_product_cache[name] = pair executed
CacheSet(cache, name, pair) ==
    [n \in DOMAIN cache \cup {name} |-> IF n = name THEN pair ELSE cache[n]]
(***************************************************************************)
(* build_hierarchy and the graph builder.  A dict is a function of its     *)
(* keys; a key that is left out of a dict is left out of the function.     *)
(***************************************************************************)
\* the caches of a builder through the loop of build_hierarchy: the cache
\* it starts with and the cache after each parser
CachesThrough(cache, parsers) ==
    LET after[k \in 0..Len(parsers)] ==
            IF k = 0 THEN cache
            ELSE IF parsers[k].name \in DOMAIN after[k - 1] THEN after[k - 1]
            ELSE CacheSet(after[k - 1], parsers[k].name,
                          extract_vendor_product(after[k - 1], parsers[k]))
    IN  after

\* vendor, product = self.extract_vendor_product(parser) for each parser
PairsOf(parsers, caches) ==
    [k \in 1..Len(parsers) |-> caches[k][parsers[k].name]]

PlacedAny(pairs) == DOMAIN pairs

\* if vendor and product
Placed(pairs) ==
    {k \in DOMAIN pairs : Truthy(pairs[k][1]) /\ Truthy(pairs[k][2])}

ProductMarking(name, vendor, parsers) ==
    [name |-> name, vendor |-> vendor,
     parsers |-> [k \in DOMAIN parsers |->
                     [parsers[k] EXCEPT !.parse_error = <<"p", "l", "a", "c", "e", "d">>]]]

\* Product(name, vendor, parsers)
Product(name, vendor, parsers) ==
    [name |-> name, vendor |-> vendor, parsers |-> parsers]

\* Vendor(name, products)
Vendor(name, products) == [name |-> name, products |-> products]

\* SC4STreeData(vendors): __post_init__ fills the metadata in at time now
SC4STreeData(vendors, now) ==
    [vendors |-> vendors,
     metadata |-> [scraped_at |-> now,
                   repository |-> <<"s", "p", "l", "u", "n", "k", "/", "s", "p", "l", "u", "n", "k", "-", "c", "o", "n", "n", "e", "c", "t", "-", "f", "o", "r", "-", "s", "y", "s", "l", "o", "g">>,
                   branch |-> <<"m", "a", "i", "n">>,
                   total_vendors |-> 0, total_products |-> 0,
                   total_parsers |-> 0]]

\* the products of a vendor, by sorted name, each with its parsers in the
\* order they were appended
ProductsOf(vendor_name, parsers, pairs, placed) ==
    LET names == Sorted({pairs[k][2] : k \in {h \in placed : pairs[h][1] = vendor_name}})
    IN  [i \in DOMAIN names |->
            Product(names[i], vendor_name,
                    SelectIdx(parsers,
                              {k \in placed :
                                  pairs[k] = <<vendor_name, names[i]>>}))]

VendorsOfUnsorted(parsers, pairs, placed) ==
    LET names == {pairs[k][1] : k \in placed}
        order == CHOOSE f \in [1..Cardinality(names) -> names] :
                     /\ \A i, j \in DOMAIN f : i # j => f[i] # f[j]
                     /\ \A i, j \in DOMAIN f : i < j => ~StrLess(f[i], f[j])
    IN  [i \in DOMAIN order |->
            Vendor(order[i], ProductsOf(order[i], parsers, pairs, placed))]

\* the vendors, by sorted name
VendorsOf(parsers, pairs, placed) ==
    LET names == Sorted({pairs[k][1] : k \in placed})
    IN  [i \in DOMAIN names |->
            Vendor(names[i], ProductsOf(names[i], parsers, pairs, placed))]

HierarchyOfPairs(parsers, pairs, now) ==
    SC4STreeData(VendorsOf(parsers, pairs, Placed(pairs)), now)

\* build_hierarchy on a builder whose vendor_product_cache is cache: the
\* SC4STreeData returned
build_hierarchy(cache, parsers, now) ==
    HierarchyOfPairs(parsers, PairsOf(parsers, CachesThrough(cache, parsers)),
                     now)

\* Metadata.to_dict(): the fields that are not None
Metadata_to_dict(metadata) ==
    [f \in {g \in DOMAIN metadata : metadata[g] # None} |-> metadata[f]]

FilterExpression_to_dict(f) ==
    [type |-> f.filter_type, pattern |-> f.pattern,
     match_type |-> f.match_type, flags |-> f.flags, raw |-> f.raw]

Application_to_dict(app) ==
    [name |-> app.name, type |-> app.app_type,
     filters |-> [k \in DOMAIN app.filters |->
                     FilterExpression_to_dict(app.filters[k])],
     parser_reference |-> app.parser_reference]

\* the Optional[FilterExpression] of a ConditionalRewrite is a list of one
\* FilterExpression, or of none for None
ConditionalRewrite_to_dict(cr) ==
    [condition_type |-> cr.condition_type,
     condition |-> IF cr.condition = << >> THEN None
                   ELSE FilterExpression_to_dict(cr.condition[1]),
     metadata |-> Metadata_to_dict(cr.metadata)]

\* a dict with the key set only if the list is not empty
IfAny(key, list, value) == IF list = << >> THEN << >> ELSE key :> value

\* a dict with the key set only if the Optional[str] counts as true
IfTruthy(key, value) == IF Truthy(value) THEN key :> value ELSE << >>

_build_parser_node(parser, vendor, product) ==
    [name |-> parser.name, type |-> <<"p", "a", "r", "s", "e", "r">>,
     parser_type |-> parser.parser_type, vendor |-> vendor,
     product |-> product, file_path |-> parser.file_path,
     metadata |-> Metadata_to_dict(parser.metadata),
     applications |-> [k \in DOMAIN parser.applications |->
                          Application_to_dict(parser.applications[k])]]
      @@ IfAny("nested_parsers", parser.nested_parsers,
               parser.nested_parsers)
      @@ IfAny("conditional_rewrites", parser.conditional_rewrites,
               [k \in DOMAIN parser.conditional_rewrites |->
                   ConditionalRewrite_to_dict(
                       parser.conditional_rewrites[k])])
      @@ IfTruthy("parse_error", parser.parse_error)

\* sum(len(p.parsers) for p in products)
ParserCount(products) ==
    LET total[k \in 0..Len(products)] ==
            IF k = 0 THEN 0 ELSE total[k - 1] + Len(products[k].parsers)
    IN  total[Len(products)]

ProductNode(product, vendor_name) ==
    [name |-> product.name, type |-> <<"p", "r", "o", "d", "u", "c", "t">>, vendor |-> vendor_name,
     children |-> [k \in DOMAIN product.parsers |->
                      _build_parser_node(product.parsers[k], vendor_name,
                                         product.name)],
     metadata |-> [parser_count |-> Len(product.parsers)]]

VendorNode(vendor) ==
    [name |-> vendor.name, type |-> <<"v", "e", "n", "d", "o", "r">>,
     children |-> [k \in DOMAIN vendor.products |->
                      ProductNode(vendor.products[k], vendor.name)],
     metadata |-> [product_count |-> Len(vendor.products),
                   parser_count |-> ParserCount(vendor.products)]]

build_vendor_hierarchy(tree) ==
    [name |-> <<"S", "C", "4", "S", " ", "P", "a", "r", "s", "e", "r", "s">>, type |-> <<"r", "o", "o", "t">>,
     children |-> [k \in DOMAIN tree.vendors |-> VendorNode(tree.vendors[k])]]

\* for vendor in tree_data.vendors: for product in vendor.products: for
\* parser in product.parsers: the (parser, vendor.name, product.name) met
Entries(tree) ==
    Flatten([v \in DOMAIN tree.vendors |->
        Flatten([p \in DOMAIN tree.vendors[v].products |->
            [k \in DOMAIN tree.vendors[v].products[p].parsers |->
                [parser |-> tree.vendors[v].products[p].parsers[k],
                 vendor |-> tree.vendors[v].name,
                 product |-> tree.vendors[v].products[p].name]]])])

ParserNodesFirst(entries, keep) ==
    LET kept == SelectIdx(entries, keep)
    IN  [k \in DOMAIN kept \cap {1} |->
            _build_parser_node(kept[k].parser, kept[k].vendor,
                               kept[k].product)]

\* the parser nodes of the entries in keep, in the order of the entries
ParserNodes(entries, keep) ==
    LET kept == SelectIdx(entries, keep)
    IN  [k \in DOMAIN kept |->
            _build_parser_node(kept[k].parser, kept[k].vendor,
                               kept[k].product)]

\* the vendor nodes of one group: by sorted vendor name, each with the
\* parsers of the group under that vendor
GroupVendorNodes(entries, group) ==
    LET names == Sorted({entries[k].vendor : k \in group})
    IN  [i \in DOMAIN names |->
            [name |-> names[i], type |-> <<"v", "e", "n", "d", "o", "r">>,
             children |-> ParserNodes(entries,
                              {k \in group : entries[k].vendor = names[i]})]]

\* the nodes of the groups by sorted key; keys[k] is the key of entry k
GroupNodes(entries, keys, type, named) ==
    LET sorted == Sorted({keys[k] : k \in DOMAIN keys})
    IN  [i \in DOMAIN sorted |->
            [name |-> IF named = "upper" THEN upper(sorted[i]) ELSE sorted[i],
             type |-> type,
             children |-> GroupVendorNodes(entries,
                              {k \in DOMAIN keys : keys[k] = sorted[i]})]]

TypeGroups(entries) ==
    GroupNodes(entries,
               [k \in DOMAIN entries |-> entries[k].parser.parser_type],
               <<"p", "a", "r", "s", "e", "r", "_", "t", "y", "p", "e">>, "upper")

build_type_hierarchy(tree) ==
    [name |-> <<"S", "C", "4", "S", " ", "P", "a", "r", "s", "e", "r", "s", " ", "b", "y", " ", "T", "y", "p", "e">>, type |-> <<"r", "o", "o", "t">>,
     children |-> TypeGroups(Entries(tree))]

\* parser.metadata.index or "unknown"
IndexKey(parser) ==
    IF Truthy(parser.metadata.index) THEN parser.metadata.index
    ELSE <<"u", "n", "k", "n", "o", "w", "n">>

IndexGroups(entries) ==
    GroupNodes(entries, [k \in DOMAIN entries |-> IndexKey(entries[k].parser)],
               <<"i", "n", "d", "e", "x">>, "same")

build_index_hierarchy(tree) ==
    [name |-> <<"S", "C", "4", "S", " ", "P", "a", "r", "s", "e", "r", "s", " ", "b", "y", " ", "I", "n", "d", "e", "x">>, type |-> <<"r", "o", "o", "t">>,
     children |-> IndexGroups(Entries(tree))]

build_flat_list(tree) == ParserNodes(Entries(tree), DOMAIN Entries(tree))
(***************************************************************************)
(* Block parser: the message format inferred from a parser's name and      *)
(* body, and the auxiliary parsers a body invokes.  Names and bodies are   *)
(* spelled character by character here.                                    *)
(***************************************************************************)
\* sub in s, for two str
Contains(s, sub) ==
    \E i \in 0..(Len(s) - Len(sub)) : SubSeq(s, i + 1, i + Len(sub)) = sub

\* the first keyword of keywords, a list of (keyword, type) pairs, that
\* text contains: the type it stands for, or otherwise when there is none
FirstContained(text, keywords, otherwise) ==
    IF \A k \in DOMAIN keywords : ~Contains(text, keywords[k][1])
    THEN otherwise
    ELSE keywords[CHOOSE k \in DOMAIN keywords :
                      /\ Contains(text, keywords[k][1])
                      /\ \A h \in 1..(k - 1) :
                             ~Contains(text, keywords[h][1])][2]

\* the if/elif chain over the name, lines 113-122
NameKeywords ==
    <<<<<<"s", "y", "s", "l", "o", "g">>, <<"s", "y", "s", "l", "o", "g">>>>, <<<<"j", "s", "o", "n">>, <<"j", "s", "o", "n">>>>,
      <<<<"c", "e", "f">>, <<"c", "e", "f">>>>, <<<<"l", "e", "e", "f">>, <<"l", "e", "e", "f">>>>, <<<<"r", "a", "w">>, <<"r", "a", "w">>>>>>

\* the if/elif chain over the content, lines 127-132
ContentKeywords ==
    <<<<<<"j", "s", "o", "n", "-", "p", "a", "r", "s", "e", "r">>, <<"j", "s", "o", "n">>>>, <<<<"c", "e", "f">>, <<"c", "e", "f">>>>,
      <<<<"l", "e", "e", "f">>, <<"l", "e", "e", "f">>>>>>

\* an infer_parser_type that compares the name and the content as written
infer_parser_type_case_sensitive(parser_name, parser_content) ==
    FirstContained(parser_name, NameKeywords,
        FirstContained(parser_content, ContentKeywords, <<"s", "y", "s", "l", "o", "g">>))

infer_parser_type(parser_name, parser_content) ==
    FirstContained(lower(parser_name), NameKeywords,
        FirstContained(lower(parser_content), ContentKeywords, <<"s", "y", "s", "l", "o", "g">>))

(***************************************************************************)
(* Rewrite parser: conditional rewrites.  Block parser: the parts of a     *)
(* body.  Text is a sequence of lexemes again; the keyword elif is written *)
(* as the two lexemes el and if, which read as one word.                   *)
(***************************************************************************)
\* ConditionalRewrite(condition, metadata, condition_type); the Optional
\* condition is a list of one FilterExpression, or of none for None
ConditionalRewrite(condition, metadata, condition_type) ==
    [condition |-> condition, metadata |-> metadata,
     condition_type |-> Str(condition_type)]

\* \s*\((.*?)\)\s*\{(.*?)\} after a keyword, with re.DOTALL
BranchTail ==
    <<Ws0, Lit("("), Open(1), LazyRep(NoneOf({}), 0), Close(1), Lit(")"),
      Ws0, Lit("{"), Open(2), LazyRep(NoneOf({}), 0), Close(2), Lit("}")>>

\* if\s*\((.*?)\)\s*\{(.*?)\}
IfBranchPattern == <<Lit("if")>> \o BranchTail

\* elif\s*\((.*?)\)\s*\{(.*?)\}
ElifBranchPattern == <<Lit("el"), Lit("if")>> \o BranchTail

\* else\s*\{(.*?)\}
ElseBranchPattern ==
    <<Lit("else"), Ws0, Lit("{"),
      Open(1), LazyRep(NoneOf({}), 0), Close(1), Lit("}")>>

\* (kw)\s*\(\s*['"]([^'"]+)['"]\s*\), one alternative of
\* (program|message|host)\s*\(\s*['"]([^'"]+)['"]\s*\)
ConditionCallPattern(kw) ==
    <<Open(1), Lit(kw), Close(1), Ws0, Lit("("), Ws0, One(OneOf(Quote)),
      Open(2), Rep(NoneOf(Quote), 1), Close(2), One(OneOf(Quote)), Ws0,
      Lit(")")>>

\* of the matches ms, one per alternative, the one that starts first
Earliest(ms) ==
    IF \A k \in DOMAIN ms : ~ms[k].matched THEN NoMatch
    ELSE ms[CHOOSE k \in DOMAIN ms :
                /\ ms[k].matched
                /\ \A h \in DOMAIN ms :
                       ms[h].matched => ms[k].start <= ms[h].start]

\* [f.strip() for f in flags_str.split(',')]
StrippedPieces(flags_str) ==
    LET pieces == Split(flags_str)
    IN  [k \in 1..Len(pieces) |-> Strip(pieces[k], Ws)]

\* _parse_condition_filter from line 232 on, the three searches done
ConditionFilterOf(condition, filter_match, type_match, flags_match) ==
    IF filter_match.matched
    THEN FilterExpression(LowerStr(Group(condition, filter_match, 1)),
             Group(condition, filter_match, 2),
             IF type_match.matched
             THEN Group(condition, type_match, 1) ELSE Str("string"),
             IF flags_match.matched
             THEN StrippedPieces(Group(condition, flags_match, 1))
             ELSE << >>,
             condition)
    ELSE FilterExpression(Str("filter"), condition, Str("string"), << >>,
                          condition)

\* a _parse_condition_filter that returns None when it finds no call
_parse_condition_filter_or_none(condition) ==
    LET filter_match ==
            Earliest([k \in 1..3 |->
                Search(ConditionCallPattern(
                           <<"program", "message", "host">>[k]),
                       TRUE, condition, 0)])
    IN  IF filter_match.matched
        THEN <<ConditionFilterOf(condition, filter_match,
                   Search(TypeClause(1), FALSE, condition, 0),
                   Search(FlagsClause(1), FALSE, condition, 0))>>
        ELSE << >>

\* the Optional[FilterExpression] returned, as a list of one
_parse_condition_filter(condition) ==
    <<ConditionFilterOf(condition,
          Earliest([k \in 1..3 |->
              Search(ConditionCallPattern(<<"program", "message", "host">>[k]),
                     TRUE, condition, 0)]),
          Search(TypeClause(1), FALSE, condition, 0),
          Search(FlagsClause(1), FALSE, condition, 0))>>

\* the records of one sweep for if or elif: lines 158-172 and 181-192
ConditionedRewrites(content, matches, condition_type) ==
    [k \in 1..Len(matches) |->
        ConditionalRewrite(
            _parse_condition_filter(Strip(Group(content, matches[k], 1), Ws)),
            parse_r_set_splunk_dest_default(Group(content, matches[k], 2)),
            condition_type)]

\* the records of the sweep for else: lines 201-209
ElseRewrites(content, matches) ==
    [k \in 1..Len(matches) |->
        ConditionalRewrite(<< >>,
            parse_r_set_splunk_dest_default(Group(content, matches[k], 1)),
            "else")]

parse_conditional_rewrites(content) ==
    ConditionedRewrites(content,
        FindIter(IfBranchPattern, TRUE, content, 0), "if")
      \o ConditionedRewrites(content,
             FindIter(ElifBranchPattern, TRUE, content, 0), "elif")
      \o ElseRewrites(content, FindIter(ElseBranchPattern, TRUE, content, 0))

\* \bif\s*\(
IF_PATTERN == <<WordBoundary, Lit("if"), Ws0, Lit("(")>>

\* \belif\s*\(
ELIF_PATTERN == <<WordBoundary, Lit("el"), Lit("if"), Ws0, Lit("(")>>

\* \belse\s*\{
ELSE_PATTERN == <<WordBoundary, Lit("else"), Ws0, Lit("{")>>

has_conditional_logic(content) ==
    \/ Search(IF_PATTERN, TRUE, content, 0).matched
    \/ Search(ELIF_PATTERN, TRUE, content, 0).matched
    \/ Search(ELSE_PATTERN, TRUE, content, 0).matched

\* the kinds of NESTED_PARSER_PATTERN, each written kind-parser
NestedKinds == <<"csv", "kv", "regexp", "json", "date">>

\* (kind-parser)\s*\(, one alternative of NESTED_PARSER_PATTERN
NESTED_PARSER_PATTERN(kind) ==
    <<Open(1), Lit(kind), Lit("-"), Lit("parser"), Close(1), Ws0, Lit("(")>>

\* the matches of the lists ms, one list per alternative, leftmost first
ByStart(ms) ==
    LET all == UNION {{ms[k][h] : h \in DOMAIN ms[k]} : k \in DOMAIN ms}
        place(m) == Cardinality({n \in all : n.start < m.start}) + 1
    IN  [n \in 1..Cardinality(all) |-> CHOOSE m \in all : place(m) = n]

\* the loop of _extract_nested_parsers over the matches: a kind, as it is
\* written, is appended unless the list holds it
AppendNew(content, matches) ==
    LET F[k \in 0..Len(matches)] ==
            IF k = 0 THEN << >>
            ELSE IF \E h \in 1..Len(F[k - 1]) :
                        F[k - 1][h] = Group(content, matches[k], 1)
            THEN F[k - 1]
            ELSE Append(F[k - 1], Group(content, matches[k], 1))
    IN  F[Len(matches)]

_extract_nested_parsers(content) ==
    AppendNew(content,
        ByStart([k \in DOMAIN NestedKinds |->
            FindIter(NESTED_PARSER_PATTERN(NestedKinds[k]), TRUE, content,
                     0)]))

\* the tuple (metadata, conditional_rewrites, nested_parsers)
parse_block_parser(parser_name, parser_content) ==
    <<parse_r_set_splunk_dest_default(parser_content),
      IF has_conditional_logic(parser_content)
      THEN parse_conditional_rewrites(parser_content) ELSE << >>,
      _extract_nested_parsers(parser_content)>>

(***************************************************************************)
(* The GitHub client and its rate limiter.  A handler takes the state it   *)
(* reads and the answers GitHub gives to the requests it sends, and yields *)
(* its outcome, the state it leaves and the requests it sent, in order.    *)
(***************************************************************************)
\* GitHubClient.__init__: rate_limit_buffer = 10
rate_limit_buffer == 10

\* RateLimiter(buffer): nothing observed yet
RateLimiter(buffer) ==
    [buffer |-> buffer, remaining |-> None, reset_time |-> None]

\* github_client.get_rate_limit() sent at time at
RateLimitRequest(at) == [api |-> "get_rate_limit", path |-> << >>, at |-> at]

\* the requests that consume the quota: github.get_repo(repo_name) and
\* repo.get_contents(path, ref=ref), sent at time at
ContentRequest(api, path, at) == [api |-> api, path |-> path, at |-> at]

\* self.remaining and self.reset_time set
Observed(limiter, remaining, reset_time) ==
    [buffer |-> limiter.buffer, remaining |-> remaining,
     reset_time |-> reset_time]

\* check_and_wait from time.sleep(wait_time) on
Waited(limiter, now, first, refreshed, wait_time) ==
    [rate_limiter |-> Observed(limiter, refreshed.remaining, first.reset),
     now |-> now + wait_time,
     requests |-> <<RateLimitRequest(now),
                    RateLimitRequest(now + wait_time)>>]

\* check_and_wait at time now: first is the rate limit GitHub reports,
\* refreshed the one it reports after the wait
check_and_wait(limiter, now, first, refreshed) ==
    IF first.remaining < limiter.buffer /\ (first.reset - now) + 5 > 0
    THEN Waited(limiter, now, first, refreshed, (first.reset - now) + 5)
    ELSE [rate_limiter |-> Observed(limiter, first.remaining, first.reset),
          now |-> now,
          requests |-> <<RateLimitRequest(now)>>]

\* the state a handler leaves after its check and its one content request
Requested(outcome, checked, api, path) ==
    [outcome |-> outcome,
     rate_limiter |-> checked.rate_limiter,
     now |-> checked.now,
     requests |-> Append(checked.requests,
                         ContentRequest(api, path, checked.now))]

\* except GithubException as e: 404 gives the value for a path not found,
\* any other status is raised again
ExceptNotFound(answer, not_found) ==
    IF answer.status = 404 THEN Return(not_found)
    ELSE Raise("GithubException", "status")

\* the try block of get_file_content on GitHub's answer to get_contents
FileContentOf(answer) ==
    CASE answer.kind = "file" -> Return(answer.content)
      [] answer.kind = "dir" -> Return(None)
      [] OTHER -> ExceptNotFound(answer, None)

get_file_content(limiter, now, path, first, refreshed, answer) ==
    Requested(FileContentOf(answer),
              check_and_wait(limiter, now, first, refreshed),
              "get_contents", path)

\* the try block of get_directory_contents: a list as it is, one
\* ContentFile as a list of one
DirectoryContentsOf(answer) ==
    CASE answer.kind = "dir" -> Return(answer.entries)
      [] answer.kind = "file" -> Return(<<answer.entry>>)
      [] OTHER -> ExceptNotFound(answer, << >>)

get_directory_contents(limiter, now, path, first, refreshed, answer) ==
    Requested(DirectoryContentsOf(answer),
              check_and_wait(limiter, now, first, refreshed),
              "get_contents", path)

\* github.get_repo(repo_name): the repository, or the exception of a name
\* GitHub does not know
RepositoryOf(repo_name, answer) ==
    IF answer.kind = "repo" THEN Return(repo_name)
    ELSE Raise("GithubException", "status")

\* get_repository when no repository is loaded yet
LoadRepository(limiter, now, repo_name, first, refreshed, answer) ==
    Requested(RepositoryOf(repo_name, answer),
              check_and_wait(limiter, now, first, refreshed),
              "get_repo", repo_name)

\* get_repository: the repository loaded first, whatever the name asked
get_repository(limiter, repo_cache, now, repo_name, first, refreshed, answer) ==
    IF repo_cache = None
    THEN LoadRepository(limiter, now, repo_name, first, refreshed, answer)
    ELSE [outcome |-> Return(repo_cache), rate_limiter |-> limiter,
          now |-> now, requests |-> << >>]

\* self._repo_cache after get_repository
RepoCacheAfter(repo_cache, got) ==
    IF repo_cache = None /\ ~got.outcome.raised THEN got.outcome.value
    ELSE repo_cache

(***************************************************************************)
(* The file fetcher.  cache_index maps a file path to its entry and        *)
(* cache_files maps the path of each file of the cache directory to the    *)
(* characters written to it.                                               *)
(***************************************************************************)
\* FileFetcher.__init__: cache_ttl_hours = 24
cache_ttl_hours == 24

\* timedelta(hours=...) in seconds
timedelta(hours) == hours * 3600

cache_ttl == timedelta(cache_ttl_hours)

\* a dict as a function: the keys, and d with d[key] = value set
Keys(d) == DOMAIN d

SetItem(d, key, value) ==
    [k \in Keys(d) \cup {key} |-> IF k = key THEN value ELSE d[k]]

\* Path(file_path).name: what follows the last slash
PathName(file_path) ==
    IF \E k \in 1..Len(file_path) : file_path[k] = "/"
    THEN SubSeq(file_path,
                1 + CHOOSE k \in 1..Len(file_path) :
                        /\ file_path[k] = "/"
                        /\ \A j \in (k + 1)..Len(file_path) :
                               file_path[j] # "/",
                Len(file_path))
    ELSE file_path

\* cache_dir / "<md5 of file_path>_<name>": the digest stands for the path
\* it is the digest of
_get_cache_path(file_path) ==
    [md5 |-> file_path, name |-> PathName(file_path)]

\* f.write(content) on a file opened for writing in text mode: on POSIX
\* the characters as they are
WriteText(content) == content

RECURSIVE ReadText(_)
\* f.read() on a file opened in text mode: universal newlines, \r\n and a
\* lone \r are read as \n
ReadText(chars) ==
    IF chars = << >> THEN << >>
    ELSE IF Head(chars) # "\r" THEN <<Head(chars)>> \o ReadText(Tail(chars))
    ELSE IF Len(chars) > 1 /\ chars[2] = "\n"
    THEN <<"\n">> \o ReadText(Tail(Tail(chars)))
    ELSE <<"\n">> \o ReadText(Tail(chars))

_is_cache_valid(index, files, now, file_path) ==
    /\ file_path \in Keys(index)
    /\ index[file_path].cache_path \in Keys(files)
    /\ now - index[file_path].cached_at < cache_ttl

get_cached_file(index, files, now, file_path) ==
    IF ~_is_cache_valid(index, files, now, file_path) THEN None
    ELSE ReadText(files[index[file_path].cache_path])

\* the cache directory after open(cache_path, 'w') and f.write(content)
Written(files, cache_path, content) ==
    SetItem(files, cache_path, WriteText(content))

\* the entry of the cache index for content saved at time now
CacheEntry(cache_path, now, content) ==
    [cache_path |-> cache_path, cached_at |-> now, size |-> Len(content)]

save_to_cache(index, files, now, file_path, content) ==
    [cache_index |->
         SetItem(index, file_path,
                 CacheEntry(_get_cache_path(file_path), now, content)),
     cache_files |-> Written(files, _get_cache_path(file_path), content)]

\* fetch_file from the cache: nothing changes and nothing is requested
FromCache(index, files, limiter, now, cached_content) ==
    [outcome |-> Return(cached_content),
     cache_index |-> index, cache_files |-> files,
     rate_limiter |-> limiter, now |-> now, requests |-> << >>]

\* the cache after the answer of GitHub: the content saved if there is one
\* and the cache is in use
CacheAfter(index, files, got, file_path, use_cache) ==
    IF ~got.outcome.raised /\ got.outcome.value # None /\ use_cache
    THEN save_to_cache(index, files, got.now, file_path, got.outcome.value)
    ELSE [cache_index |-> index, cache_files |-> files]

\* fetch_file from "Fetch from GitHub" on
FromGitHub(index, files, got, file_path, use_cache) ==
    [outcome |-> got.outcome,
     cache_index |->
         CacheAfter(index, files, got, file_path, use_cache).cache_index,
     cache_files |->
         CacheAfter(index, files, got, file_path, use_cache).cache_files,
     rate_limiter |-> got.rate_limiter,
     now |-> got.now,
     requests |-> got.requests]

\* fetch_file once the cache has been looked at: cached_content is None
\* when it was not
FetchUnlessCached(index, files, limiter, now, cached_content, file_path, use_cache, first, refreshed, answer) ==
    IF cached_content # None
    THEN FromCache(index, files, limiter, now, cached_content)
    ELSE FromGitHub(index, files,
                    get_file_content(limiter, now, file_path, first,
                                     refreshed, answer),
                    file_path, use_cache)

\* a fetch_file that takes force_refresh for a flag of no effect
fetch_file_no_refresh(index, files, limiter, now, file_path, use_cache, force_refresh, first, refreshed, answer) ==
    FetchUnlessCached(index, files, limiter, now,
                      IF use_cache
                      THEN get_cached_file(index, files, now, file_path)
                      ELSE None,
                      file_path, use_cache, first, refreshed, answer)

fetch_file(index, files, limiter, now, file_path, use_cache, force_refresh, first, refreshed, answer) ==
    FetchUnlessCached(index, files, limiter, now,
                      IF use_cache /\ ~force_refresh
                      THEN get_cached_file(index, files, now, file_path)
                      ELSE None,
                      file_path, use_cache, first, refreshed, answer)

\* clear_cache: every file an entry names is unlinked and the index is
\* empty
clear_cache(index, files) ==
    [cache_index |-> << >>,
     cache_files |->
         [p \in Keys(files) \ {index[f].cache_path : f \in Keys(index)}
             |-> files[p]]]
(***************************************************************************)
(* The delimiter extractors called on every short text and every offset.   *)
(***************************************************************************)
\* longest text handed to a delimiter extractor
MaxLen == 5

\* a brace extractor sees braces, a parenthesis and a plain character
BraceAlphabet == {"{", "}", "(", "a"}

\* a parenthesis extractor sees parentheses, a brace and a plain character
ParenAlphabet == {"(", ")", "{", "a"}

InitDelim ==
    /\ NoObjects
    /\ pc = "call"
    /\ ret = << >>
    /\ \/ /\ op = "_extract_balanced_braces"
          /\ \E content \in SeqsUpTo(BraceAlphabet, MaxLen) :
                 \E start_pos \in 0..(Len(content) + 1) :
                     arg = [content |-> content, start_pos |-> start_pos]
       \/ /\ op = "_extract_balanced_parens"
          /\ \E content \in SeqsUpTo(ParenAlphabet, MaxLen) :
                 \E start_pos \in 0..(Len(content) + 1) :
                     arg = [content |-> content, start_pos |-> start_pos]

ExtractBalancedBraces ==
    /\ pc = "call"
    /\ op = "_extract_balanced_braces"
    /\ ret' = _extract_balanced_braces(arg.content, arg.start_pos)
    /\ pc' = "returned"
    /\ UNCHANGED <<op, arg, objects>>

ExtractBalancedParens ==
    /\ pc = "call"
    /\ op = "_extract_balanced_parens"
    /\ ret' = _extract_balanced_parens(arg.content, arg.start_pos)
    /\ pc' = "returned"
    /\ UNCHANGED <<op, arg, objects>>

NextDelim ==
    \/ ExtractBalancedBraces
    \/ ExtractBalancedParens

SpecDelim == InitDelim /\ [][NextDelim]_vars

(***************************************************************************)
(* C6.  What a delimiter extractor must return, stated without a scan:     *)
(* the depth of a span is its openers minus its closers, the matching      *)
(* closer of the opener at offset i is the first later offset at which the *)
(* depth of the span from i is back to zero.                               *)
(***************************************************************************)
SpanDepth(content, i, j, opener, closer) ==
    Cardinality({k \in i..j : At(content, k) = opener})
      - Cardinality({k \in i..j : At(content, k) = closer})

HasCloser(content, i, opener, closer) ==
    \E j \in (i + 1)..(Len(content) - 1) :
        SpanDepth(content, i, j, opener, closer) = 0

MatchingCloser(content, i, opener, closer) ==
    CHOOSE j \in (i + 1)..(Len(content) - 1) :
        /\ SpanDepth(content, i, j, opener, closer) = 0
        /\ \A k \in (i + 1)..(j - 1) :
               SpanDepth(content, i, k, opener, closer) # 0

OnOpener(content, i, opener) ==
    i < Len(content) /\ At(content, i) = opener

InnerContent(content, i, opener, closer) ==
    IF OnOpener(content, i, opener) /\ HasCloser(content, i, opener, closer)
    THEN Slice(content, i + 1, MatchingCloser(content, i, opener, closer))
    ELSE << >>

\* C6: called on an opener whose span is well formed, a delimiter extractor
\* returns exactly the text between the opener and its matching closer, at
\* any nesting depth; called on a span the text ends inside, on an offset
\* past the end or on an offset that holds no opener, it returns the empty
\* string.
C6_DelimiterExtractor ==
    pc = "returned" =>
        /\ op = "_extract_balanced_braces" =>
               ret = InnerContent(arg.content, arg.start_pos, "{", "}")
        /\ op = "_extract_balanced_parens" =>
               ret = InnerContent(arg.content, arg.start_pos, "(", ")")

\* a nested well-formed brace span has been extracted whole
C6_Witness ==
    /\ pc = "returned"
    /\ op = "_extract_balanced_braces"
    /\ arg.content = <<"{", "{", "a", "}", "}">>
    /\ arg.start_pos = 0
    /\ ret = <<"{", "a", "}">>

(***************************************************************************)
(* parse_filter_block called on filter bodies.  A body is written from a   *)
(* list of predicate calls, each a name and one way of writing the         *)
(* arguments; the list is kept beside the text (arg.calls) so that what    *)
(* the parser returns can be compared with what was written.              *)
(***************************************************************************)
\* most predicate calls in one filter body
MaxCalls == 3

\* the three reserved predicates and a predicate the parser has no pattern for
FilterNames == {"program", "message", "host", "match"}

\* the ways a call's arguments are written
FilterForms == {"plain", "typed", "flagged", "comma", "bare"}

\* flags(prefix, "ignore-case")
FlagsText ==
    <<"flags", "(", "prefix", ",", " ", "\"", "ignore", "-", "case", "\"", ")">>

\* the argument list of a call, parentheses included
FormText(form) ==
    CASE form = "plain" -> <<"(", "\"", "sshd", "\"", ")">>
      [] form = "typed" ->
            <<"(", "\"", "sshd", "\"", " ", "type", "(", "regexp", ")", ")">>
      [] form = "flagged" ->
            <<"(", "\"", "sshd", "\"", " ">> \o FlagsText \o <<")">>
      [] form = "comma" ->
            <<"(", "\"", "sshd", "\"", ",", " ">> \o FlagsText \o <<")">>
      [] form = "bare" -> <<"(", "sshd", ")">>

FilterCalls == [name : FilterNames, form : FilterForms]

CallText(call) == <<call.name>> \o FormText(call.form)

RECURSIVE BodyText(_)
\* the calls of a body, one space between two
BodyText(calls) ==
    IF calls = << >> THEN << >>
    ELSE IF Len(calls) = 1 THEN CallText(calls[1])
    ELSE CallText(calls[1]) \o <<" ">> \o BodyText(Tail(calls))

InitFilter ==
    /\ NoObjects
    /\ pc = "call"
    /\ ret = << >>
    /\ op = "parse_filter_block"
    /\ \E calls \in SeqsUpTo(FilterCalls, MaxCalls) :
           arg = [content |-> BodyText(calls), calls |-> calls]

ParseFilterBlock ==
    /\ pc = "call"
    /\ op = "parse_filter_block"
    /\ ret' = parse_filter_block(arg.content)
    /\ pc' = "returned"
    /\ UNCHANGED <<op, arg, objects>>

NextFilter == ParseFilterBlock

SpecFilter == InitFilter /\ [][NextFilter]_vars

(***************************************************************************)
(* C9                                                                      *)
(***************************************************************************)
\* program("sshd", flags(prefix, "ignore-case"))
C9_CommaBlock == <<"program">> \o FormText("comma")

\* program("sshd" flags(prefix, "ignore-case"))
C9_SpaceBlock == <<"program">> \o FormText("flagged")

C9_Expected(r) ==
    /\ Len(r) = 1
    /\ r[1].filter_type = Str("program")
    /\ r[1].pattern = Str("sshd")
    /\ r[1].flags = <<Str("prefix"), <<"ignore", "-", "case">>>>

\* C9 as stated: a filter block holding only
\* program("sshd", flags(prefix, "ignore-case")) yields exactly one
\* FilterExpression, of kind program, pattern sshd, flags [prefix, ignore-case].
C9_Original ==
    (pc = "returned" /\ arg.content = C9_CommaBlock) => C9_Expected(ret)

\* C9 as amended: the block program("sshd" flags(prefix, "ignore-case")),
\* the flags clause following the pattern after whitespace as in the grammar,
\* yields exactly that FilterExpression; with a comma after the pattern the
\* block yields no FilterExpression at all.
C9_Amended ==
    /\ (pc = "returned" /\ arg.content = C9_SpaceBlock) => C9_Expected(ret)
    /\ (pc = "returned" /\ arg.content = C9_CommaBlock) => ret = << >>

\* the block without the comma has been parsed into one expression
C9_Witness ==
    /\ pc = "returned"
    /\ arg.content = C9_SpaceBlock
    /\ Len(ret) = 1
    /\ ret[1].flags = <<Str("prefix"), <<"ignore", "-", "case">>>>

(***************************************************************************)
(* C10.  What the body's own calls say the result must be.  A call is an   *)
(* occurrence of a reserved predicate when it is written in the grammar    *)
(* name( "pattern" [type(...)] [flags(...)] ), and a generic call when its *)
(* first argument is a quoted pattern.                                     *)
(***************************************************************************)
GrammarForms == {"plain", "typed", "flagged"}

QuotedForms == GrammarForms \cup {"comma"}

\* the calls of one reserved predicate, in textual order
Occurrences(calls, name) ==
    SelectIdx(calls, {k \in 1..Len(calls) :
                          calls[k].name = name /\ calls[k].form \in GrammarForms})

\* the calls of the other predicates, in textual order
GenericCalls(calls) ==
    SelectIdx(calls, {k \in 1..Len(calls) :
                          /\ calls[k].name \notin {"program", "message", "host"}
                          /\ calls[k].form \in QuotedForms})

ExpectedCalls(calls) ==
    LET specific == Occurrences(calls, "program")
                      \o Occurrences(calls, "message")
                      \o Occurrences(calls, "host")
    IN  IF specific # << >> THEN specific ELSE GenericCalls(calls)

\* the FilterExpression r is the one written as the reserved call c
IsSpecificOf(r, c) ==
    /\ r.filter_type = Str(c.name)
    /\ r.pattern = Str("sshd")
    /\ r.match_type = (IF c.form = "typed" THEN Str("regexp") ELSE Str("string"))
    /\ r.flags = (IF c.form = "flagged"
                  THEN <<Str("prefix"), <<"ignore", "-", "case">>>>
                  ELSE << >>)
    /\ r.raw = CallText(c)

\* C10: parse_filter_block returns one FilterExpression per occurrence of a
\* program, message or host predicate, the program ones first, then the
\* message ones, then the host ones, each group in textual order; it returns
\* generic predicates only when none of the three occurs, one per call of
\* another name, and never one of kind program, message or host.
C10_PrecedenceAndFallback ==
    pc = "returned" =>
        LET want == ExpectedCalls(arg.calls)
        IN  /\ Len(ret) = Len(want)
            /\ \A k \in 1..Len(want) :
                   IF want[k].name \in {"program", "message", "host"}
                   THEN IsSpecificOf(ret[k], want[k])
                   ELSE /\ ret[k].filter_type = Str(want[k].name)
                        /\ ret[k].filter_type \notin ReservedNames
                        /\ ret[k].pattern = Str("sshd")

\* a body written host, message, program has come back program, message, host
C10_Witness ==
    /\ pc = "returned"
    /\ Len(arg.calls) = 3
    /\ arg.calls[1].name = "host" /\ arg.calls[1].form = "plain"
    /\ arg.calls[2].name = "message" /\ arg.calls[2].form = "typed"
    /\ arg.calls[3].name = "program" /\ arg.calls[3].form = "flagged"
    /\ Len(ret) = 3
    /\ ret[1].filter_type = Str("program")
    /\ ret[2].filter_type = Str("message")
    /\ ret[3].filter_type = Str("host")

(***************************************************************************)
(* extract_applications called on texts made of application declarations.  *)
(***************************************************************************)
\* most declarations written one after the other in a text
MaxDecls == 2

\* a declaration nested in the body of another
NestedDecl ==
    <<" ", "application", " ", "n", " ", "[", "t", "]", " ", "{", "y", "}",
      " ">>

\* bodies: empty, blank, one brace pair, braces two deep, a declaration
AppBodies ==
    {<< >>, <<" ">>, <<"{", "x", "}">>,
     <<"a", "{", "b", "{", "c", "}", "}", "d">>, NestedDecl}

\* the two ways a declaration is written: spaced out with a one-word tag, or
\* tight with an upper-case keyword and a hyphenated tag
AppStyles == {"spaced", "tight"}

AppNames == {<<"a">>, <<"b", "-", "c">>}

AppDecls ==
    [name : AppNames, style : AppStyles, body : AppBodies, closed : BOOLEAN]

TagOf(d) == IF d.style = "spaced" THEN <<"t">> ELSE <<"sc4s", "-", "syslog">>

\* the text of a declaration; one that is not closed lacks its last brace
DeclText(d) ==
    (IF d.style = "spaced"
     THEN <<"application", " ">> \o d.name \o <<" ", "[">> \o TagOf(d)
              \o <<"]", " ", "{">>
     ELSE <<"APPLICATION", "\n">> \o d.name \o <<"[">> \o TagOf(d)
              \o <<"]", "{">>)
      \o d.body \o (IF d.closed THEN <<"}">> ELSE << >>) \o <<"\n">>

RECURSIVE DeclsText(_)
DeclsText(decls) ==
    IF decls = << >> THEN << >>
    ELSE DeclText(Head(decls)) \o DeclsText(Tail(decls))

InitApp ==
    /\ NoObjects
    /\ pc = "call"
    /\ ret = << >>
    /\ op = "extract_applications"
    /\ \E decls \in SeqsUpTo(AppDecls, MaxDecls) :
           arg = [content |-> DeclsText(decls), decls |-> decls]

ExtractApplications ==
    /\ pc = "call"
    /\ op = "extract_applications"
    /\ ret' = extract_applications(arg.content)
    /\ pc' = "returned"
    /\ UNCHANGED <<op, arg, objects>>

NextApp == ExtractApplications

SpecApp == InitApp /\ [][NextApp]_vars

\* the triple of a declaration
TripleOf(d) ==
    [app_name |-> d.name, app_type |-> TagOf(d), app_content |-> d.body]

\* the triple of the declaration nested in a body, if there is one; it has
\* its own balanced braces whatever the declaration around it
NestedTriples(d) ==
    IF d.body = NestedDecl
    THEN <<[app_name |-> <<"n">>, app_type |-> <<"t">>,
            app_content |-> <<"y">>]>>
    ELSE << >>

\* one triple per declaration whose braces balance
BalancedTriples(decls) ==
    Flatten([k \in 1..Len(decls) |->
                (IF decls[k].closed THEN <<TripleOf(decls[k])>> ELSE << >>)
                  \o NestedTriples(decls[k])])

\* one triple per declaration whose braces balance around a body that is
\* not empty
NonEmptyTriples(decls) ==
    Flatten([k \in 1..Len(decls) |->
                (IF decls[k].closed /\ decls[k].body # << >>
                 THEN <<TripleOf(decls[k])>> ELSE << >>)
                  \o NestedTriples(decls[k])])

\* C7 as stated: extract_applications returns one (name, type-tag, body)
\* triple per application declaration, in textual order, the body being
\* the text between the opening brace and its matching closing brace at
\* any nesting depth, and nothing for a declaration whose braces never
\* balance.
C7_Original ==
    pc = "returned" /\ op = "extract_applications" =>
        ret = BalancedTriples(arg.decls)

\* C7 amended: extract_applications returns one (name, type-tag, body)
\* triple per application declaration whose body is not empty, in textual
\* order, the body being the text between the opening brace and its
\* matching closing brace at any nesting depth; a declaration whose body is
\* empty and a declaration whose braces never balance yield no triple.
C7_Amended ==
    pc = "returned" /\ op = "extract_applications" =>
        ret = NonEmptyTriples(arg.decls)

\* a text with a declaration that never closes, then one whose body nests
\* braces two deep, has been extracted
C7_Witness ==
    /\ pc = "returned"
    /\ op = "extract_applications"
    /\ Len(arg.decls) = 2
    /\ ~arg.decls[1].closed
    /\ arg.decls[2].closed
    /\ arg.decls[2].body = <<"a", "{", "b", "{", "c", "}", "}", "d">>
    /\ ret = <<TripleOf(arg.decls[2])>>

(***************************************************************************)
(* extract_block_parsers called on texts made of block-parser              *)
(* declarations.                                                           *)
(***************************************************************************)
\* most block-parser declarations written one after the other in a text
MaxBlocks == 2

\* bodies: one statement, a nested construct closed on a line of its own,
\* a nested construct closed on the line it opens
BlockBodies ==
    {<<"x">>,
     <<"y", " ", "{", "\n", " ", "z", "\n", " ", "}", ";", "\n", " ", "w">>,
     <<"y", " ", "{", " ", "z", " ", "}", ";">>}

\* a declaration spans several lines or stands on a single line
BlockLayouts == {"lines", "single"}

BlockNames == {<<"p">>, <<"q", "-", "r">>}

BlockDecls == [name : BlockNames, layout : BlockLayouts, body : BlockBodies]

\* the text between the braces of a declaration
BetweenBraces(d) ==
    IF d.layout = "lines"
    THEN <<"\n", " ">> \o d.body \o <<"\n">>
    ELSE <<" ">> \o d.body \o <<" ">>

BlockText(d) ==
    <<"block", " ", "parser", " ">> \o d.name \o <<"(", ")", " ", "{">>
      \o BetweenBraces(d) \o <<"}", ";", "\n">>

RECURSIVE BlocksText(_)
BlocksText(decls) ==
    IF decls = << >> THEN << >>
    ELSE BlockText(Head(decls)) \o BlocksText(Tail(decls))

InitBlock ==
    /\ NoObjects
    /\ pc = "call"
    /\ ret = << >>
    /\ op = "extract_block_parsers"
    /\ \E decls \in SeqsUpTo(BlockDecls, MaxBlocks) :
           arg = [content |-> BlocksText(decls), decls |-> decls]

ExtractBlockParsers ==
    /\ pc = "call"
    /\ op = "extract_block_parsers"
    /\ ret' = extract_block_parsers(arg.content)
    /\ pc' = "returned"
    /\ UNCHANGED <<op, arg, objects>>

NextBlock == ExtractBlockParsers

SpecBlock == InitBlock /\ [][NextBlock]_vars

\* C8: extract_block_parsers returns one (name, body) pair per block-parser
\* declaration, in textual order, the body being the text between the
\* declaration's own braces (compared here up to the white space around
\* it), for declarations on a single line and for bodies that contain
\* nested { ... }; constructs.
C8_OnePairPerDeclaration ==
    pc = "returned" /\ op = "extract_block_parsers" =>
        /\ Len(ret) = Len(arg.decls)
        /\ \A k \in 1..Len(ret) :
               /\ ret[k].parser_name = arg.decls[k].name
               /\ Strip(ret[k].parser_content, Ws)
                      = Strip(BetweenBraces(arg.decls[k]), Ws)

(***************************************************************************)
(* parse_file and parse_multiple_files called on files made of block       *)
(* parsers and applications.                                               *)
(***************************************************************************)
\* most applications in one file
MaxFileApps == 2

\* most files in one batch
MaxFiles == 2

FilePaths == {<<"f1">>, <<"f2">>}

\* the block parsers of a file, in textual order
FileBlocks == {<< >>, <<<<"p">>>>, <<<<"q">>>>, <<<<"p">>, <<"q">>>>}

\* an application has a name, which may be that of a block parser, and
\* refers to no parser, to p or to a parser r no file here defines
FileApps == [name : {<<"a">>, <<"p">>}, ref : {None, <<"p">>, <<"r">>}]

\* the body of an application
AppBody(a) ==
    IF a.ref = None THEN <<" ", "x", " ">>
    ELSE <<" ", "parser", " ", "{", " ">> \o a.ref
             \o <<"(", ")", ";", " ", "}", ";", " ">>

\* the text of a file: its block parsers, each on lines of its own, then
\* its applications
FileText(blocks, apps) ==
    BlocksText([k \in 1..Len(blocks) |->
                   [name |-> blocks[k], layout |-> "lines",
                    body |-> <<"x">>]])
      \o DeclsText([k \in 1..Len(apps) |->
                       [name |-> apps[k].name, style |-> "spaced",
                        body |-> AppBody(apps[k]), closed |-> TRUE]])

File(file_path, blocks, apps) ==
    [file_path |-> file_path, content |-> FileText(blocks, apps),
     blocks |-> blocks, apps |-> apps]

\* the files of a batch: empty, a block parser alone, a block parser with
\* its application, an application that refers to another file
BatchFiles ==
    {File(f, d[1], d[2]) :
        f \in FilePaths,
        d \in {<<<< >>, << >>>>,
               <<<<<<"p">>>>, << >>>>,
               <<<<<<"p">>>>, <<[name |-> <<"a">>, ref |-> <<"p">>]>>>>,
               <<<< >>, <<[name |-> <<"a">>, ref |-> <<"r">>]>>>>}}

InitOrch ==
    /\ NoObjects
    /\ pc = "call"
    /\ ret = << >>
    /\ \/ /\ op = "parse_file"
          /\ \E f \in FilePaths, blocks \in FileBlocks,
                apps \in SeqsUpTo(FileApps, MaxFileApps),
                extract_raw \in BOOLEAN :
                 arg = [file |-> File(f, blocks, apps),
                        extract_raw |-> extract_raw]
       \/ /\ op = "parse_multiple_files"
          /\ \E files \in SeqsUpTo(BatchFiles, MaxFiles),
                extract_raw \in BOOLEAN :
                 arg = [files |-> files, extract_raw |-> extract_raw]

\* the call ends with a value returned or an exception raised
Outcome(outcome) ==
    /\ pc' = IF outcome.raised THEN "raised" ELSE "returned"
    /\ ret' = outcome.value

ParseFile ==
    /\ pc = "call"
    /\ op = "parse_file"
    /\ Outcome(parse_file(arg.file.file_path, arg.file.content,
                          arg.extract_raw))
    /\ UNCHANGED <<op, arg, objects>>

ParseMultipleFiles ==
    /\ pc = "call"
    /\ op = "parse_multiple_files"
    /\ Outcome(parse_multiple_files(arg.files, arg.extract_raw))
    /\ UNCHANGED <<op, arg, objects>>

NextOrch ==
    \/ ParseFile
    \/ ParseMultipleFiles

SpecOrch == InitOrch /\ [][NextOrch]_vars

\* a step of parse_file raises on this file
StepRaises(file, extract_raw) ==
    ParseFileTry(file.file_path, file.content, extract_raw).raised

\* the one record of a recovered failure
IsErrorRecordOf(r, file) ==
    /\ r.name = <<"ERROR_">> \o file.file_path
    /\ r.file_path = file.file_path
    /\ r.parse_error \notin {None, << >>, <<"">>}

\* C1: parse_file never propagates an exception; on a file path and text
\* on which a step raises it returns exactly one ParserDefinition, with a
\* non-empty parse_error, the name ERROR_<file_path> and the given
\* file_path.
C1_NeverPropagates ==
    op = "parse_file" =>
        /\ pc # "raised"
        /\ pc = "returned" /\ StepRaises(arg.file, arg.extract_raw) =>
               /\ Len(ret) = 1
               /\ IsErrorRecordOf(ret[1], arg.file)

\* parse_file has returned the error record of a file with a block parser
\* and an application
C1_Witness ==
    /\ pc = "returned"
    /\ op = "parse_file"
    /\ arg.file.file_path = <<"f1">>
    /\ arg.file.blocks = <<<<"p">>>>
    /\ Len(arg.file.apps) = 1
    /\ StepRaises(arg.file, arg.extract_raw)
    /\ ret[1].name = <<"ERROR_", "f1">>
    /\ ret[1].parser_type = <<"unknown">>

\* the applications of a file that refer to a parser the file does not
\* define
OrphanApps(file) ==
    SelectIdx(file.apps,
              {k \in 1..Len(file.apps) :
                   /\ file.apps[k].ref # None
                   /\ \A b \in 1..Len(file.blocks) :
                          file.blocks[b] # file.apps[k].ref})

\* C2: for a file on which block-parser extraction and application
\* extraction complete (they always do), parse_file returns one
\* ParserDefinition per block-parser declaration, named after it, in
\* textual order, then the reference stubs, and no returned record has
\* parse_error set.
C2_OneRecordPerBlockParser ==
    pc = "returned" /\ op = "parse_file" =>
        /\ Len(ret) = Len(arg.file.blocks) + Len(OrphanApps(arg.file))
        /\ \A k \in 1..Len(arg.file.blocks) :
               k <= Len(ret) /\ ret[k].name = arg.file.blocks[k]
        /\ \A k \in 1..Len(ret) : ret[k].parse_error = None

\* what parse_file returns for the k-th file alone
Alone(k) ==
    parse_file(arg.files[k].file_path, arg.files[k].content,
               arg.extract_raw).value

RECURSIVE RecordsBefore(_)
\* how many records the files before the k-th contribute
RecordsBefore(k) ==
    IF k = 1 THEN 0 ELSE RecordsBefore(k - 1) + Len(Alone(k - 1))

\* C3: parse_multiple_files returns the concatenation, in input order, of
\* what parse_file returns for each pair alone; a file whose processing
\* fails contributes exactly its one error record, and the records of the
\* files before and after it are still there.
C3_Concatenation ==
    op = "parse_multiple_files" =>
        /\ pc # "raised"
        /\ pc = "returned" =>
               /\ Len(ret) = RecordsBefore(Len(arg.files) + 1)
               /\ \A k \in 1..Len(arg.files) :
                      /\ Slice(ret, RecordsBefore(k), RecordsBefore(k + 1))
                             = Alone(k)
                      /\ StepRaises(arg.files[k], arg.extract_raw) =>
                             /\ Len(Alone(k)) = 1
                             /\ IsErrorRecordOf(ret[RecordsBefore(k) + 1],
                                                arg.files[k])

\* a batch of two files has returned the error record of the first, then
\* that of the second
C3_Witness ==
    /\ pc = "returned"
    /\ op = "parse_multiple_files"
    /\ Len(arg.files) = 2
    /\ arg.files[1].file_path = <<"f2">>
    /\ arg.files[2].file_path = <<"f1">>
    /\ StepRaises(arg.files[1], arg.extract_raw)
    /\ Len(ret) = 2
    /\ ret[1].name = <<"ERROR_", "f2">>
    /\ ret[2].name = <<"ERROR_", "f1">>

\* the applications of a file that refer to parser p or bear its name
AppsOf(file, p) ==
    SelectIdx(file.apps,
              {k \in 1..Len(file.apps) :
                   file.apps[k].ref = p \/ file.apps[k].name = p})

\* name and parser reference of each application of a record
Attached(r) ==
    [k \in 1..Len(r.applications) |->
        [name |-> r.applications[k].name,
         ref |-> r.applications[k].parser_reference]]

\* C4: in the records built for one file, the applications list of the
\* ParserDefinition of block parser P holds exactly the applications whose
\* parser_reference is P's name or whose own name is P's name, in textual
\* order.
C4_AttachedApplications ==
    pc = "returned" /\ op = "parse_file" =>
        \A b \in 1..Len(arg.file.blocks) :
            \E k \in 1..Len(ret) :
                /\ ret[k].name = arg.file.blocks[b]
                /\ Attached(ret[k]) = AppsOf(arg.file, arg.file.blocks[b])

\* the records of type reference, in order
ReferenceStubs(records) ==
    SelectIdx(records, {k \in 1..Len(records) :
                            records[k].parser_type = <<"reference">>})

\* C5: for each application whose parser_reference names a block parser
\* absent from the file there is exactly one ParserDefinition of type
\* reference, carrying only that application, and no stub bears the name
\* of a genuine block parser record of the file.
C5_OneStubPerOrphan ==
    pc = "returned" /\ op = "parse_file" =>
        LET stubs == ReferenceStubs(ret)
            orphans == OrphanApps(arg.file)
        IN  /\ Len(stubs) = Len(orphans)
            /\ \A k \in 1..Len(stubs) :
                   /\ Attached(stubs[k]) = <<orphans[k]>>
                   /\ \A b \in 1..Len(arg.file.blocks) :
                          stubs[k].name # arg.file.blocks[b]


\* C27: no extracted application is lost: every application that
\* extract_applications finds in a file's text appears in the applications
\* list of at least one ParserDefinition built for that file, attached to a
\* block parser or carried by a reference stub, also an application that
\* has no parser sub-block and whose name equals no block parser's name.
C27_NoApplicationLost ==
    pc = "returned" /\ op = "parse_file" =>
        LET found == extract_applications(arg.file.content)
        IN  \A a \in 1..Len(found) :
                \E k \in 1..Len(ret) :
                    \E j \in 1..Len(ret[k].applications) :
                        ret[k].applications[j].name = found[a].app_name
(***************************************************************************)
(* parse_r_set_splunk_dest_default called on block-parser bodies.          *)
(***************************************************************************)
\* most field("value") pairs in an argument list
MaxPairs == 2

\* the six recognized field names, one that is not, one that differs from
\* a recognized name by case
PairNames ==
    {"index", "sourcetype", "vendor", "product", "template", "class",
     "source", "Index"}

PairValues == {<<"a">>, <<"b", "-", "c">>}

Pairs == [name : PairNames, value : PairValues]

\* the call is missing, complete, or lacks its closing parenthesis; the
\* pairs may sit one level deeper, in the argument list of a nested call
CallShapes == {"missing", "closed", "open", "nested"}

\* field("value"), a blank after it
PairText(p) == <<p.name, "(", "\"">> \o p.value \o <<"\"", ")", " ">>

RECURSIVE PairsText(_)
PairsText(pairs) ==
    IF pairs = << >> THEN << >>
    ELSE PairText(Head(pairs)) \o PairsText(Tail(pairs))

\* a body: a statement, the call, and a pair written after the call
MetaText(shape, pairs) ==
    <<"x", "(", ")", ";", "\n">>
      \o (CASE shape = "missing" -> PairsText(pairs)
            [] shape = "closed" ->
                 <<"r_set_splunk_dest_default", "(", " ">> \o PairsText(pairs)
                     \o <<")">>
            [] shape = "open" ->
                 <<"r_set_splunk_dest_default", " ", "(">> \o PairsText(pairs)
            [] shape = "nested" ->
                 <<"r_set_splunk_dest_default", "(", "\n", "y", "(">>
                     \o PairsText(pairs) \o <<")", ")">>)
      \o <<";", "\n", "template", "(", "'", "z", "'", ")", ";">>

InitMeta ==
    /\ NoObjects
    /\ pc = "call"
    /\ ret = << >>
    /\ op = "parse_r_set_splunk_dest_default"
    /\ \E shape \in CallShapes, pairs \in SeqsUpTo(Pairs, MaxPairs) :
           arg = [content |-> MetaText(shape, pairs), shape |-> shape,
                  pairs |-> pairs]

ParseRSetSplunkDestDefault ==
    /\ pc = "call"
    /\ op = "parse_r_set_splunk_dest_default"
    /\ ret' = parse_r_set_splunk_dest_default(arg.content)
    /\ pc' = "returned"
    /\ UNCHANGED <<op, arg, objects>>

NextMeta == ParseRSetSplunkDestDefault

SpecMeta == InitMeta /\ [][NextMeta]_vars

\* the pairs of the argument list: those of a call that is there and whose
\* parentheses balance
ListedPairs ==
    IF arg.shape \in {"closed", "nested"} THEN arg.pairs ELSE << >>

\* the value of the pairs named name in the argument list: that of the last
\* one; None when there is none
ListedValue(name) ==
    LET at == {k \in 1..Len(ListedPairs) : ListedPairs[k].name = name}
    IN  IF at = {} THEN None
        ELSE ListedPairs[CHOOSE k \in at : \A h \in at : h <= k].value

\* C11: each of index, sourcetype, vendor, product, template and class of
\* the Metadata returned holds the value of the field("value") pair of that
\* name in the balanced argument list of the call (of the last such pair if
\* there are several) and is absent when the list has none; pairs of any
\* other name and pairs outside the list have no effect; a missing call or
\* unbalanced parentheses give the empty Metadata.
C11_MetadataOfCall ==
    pc = "returned" /\ op = "parse_r_set_splunk_dest_default" =>
        /\ ret.index = ListedValue("index")
        /\ ret.sourcetype = ListedValue("sourcetype")
        /\ ret.vendor = ListedValue("vendor")
        /\ ret.product = ListedValue("product")
        /\ ret.template = ListedValue("template")
        /\ ret.class_ = ListedValue("class")
        /\ DOMAIN ret = DOMAIN Metadata

\* a call with a class pair and a pair of an unrecognized name has been
\* parsed: class is set, template, written after the call, is not
C11_Witness ==
    /\ pc = "returned"
    /\ op = "parse_r_set_splunk_dest_default"
    /\ arg.shape = "closed"
    /\ arg.pairs = <<[name |-> "class", value |-> <<"a">>],
                     [name |-> "source", value |-> <<"b", "-", "c">>]>>
    /\ ret = [Metadata EXCEPT !.class_ = <<"a">>]

(***************************************************************************)
(* extract_vendor_product called on HierarchyBuilder instances, and the    *)
(* two normalizers called on names.                                        *)
(***************************************************************************)
\* HierarchyBuilder instances of a run
MaxBuilders == 2

\* most calls of extract_vendor_product in a run
MaxExtractCalls == 3

\* longest name handed to a normalizer
MaxNameLen == 5

Builders == 1..MaxBuilders

\* a tail that is not there: the name has no underscore
NoTail == <<"<no underscore>">>

\* a parser name is a known prefix or none, a head without underscore and,
\* after an underscore, a tail; a head may itself begin like a prefix
NamePrefixes == { << >>, <<"a", "p", "p", "-", "s", "y", "s", "l", "o", "g", "-">>, <<"a", "p", "p", "-", "n", "e", "t", "s", "o", "u", "r", "c", "e", "-">>}

NameHeads ==
    { << >>, <<"c", "i", "s", "c", "o">>, <<"f", "5">>, <<"a", "c", "m", "e">>, <<"p", "a", "l", "o", "a", "l", "t", "o">>, <<"a", "p", "p", "-", "j", "s", "o", "n", "-", "x">>}

NameTails ==
    {NoTail, << >>, <<"a", "s", "a">>, <<"b", "i", "g", "i", "p">>, <<"a", "b", "c", "d">>, <<"f", "i", "r", "e", "_", "p", "o", "w", "e", "r">>}

NameParts ==
    {d \in [prefix : NamePrefixes, head : NameHeads, tail : NameTails] :
        d.prefix = << >> => d.head # <<"a", "p", "p", "-", "j", "s", "o", "n", "-", "x">>}

NameOf(d) ==
    d.prefix \o d.head
      \o (IF d.tail = NoTail THEN << >> ELSE <<"_">> \o d.tail)

MetadataVendors == {None, << >>, <<"C", "i", "s", "c", "o">>, <<"f", "5">>, <<"m", "y", "_", "v", "e", "n", "d", "o", "r">>}

MetadataProducts == {None, << >>, <<"A", "S", "A">>, <<"b", "i", "g", "i", "p">>, <<"f", "i", "r", "e", "-", "p", "o", "w", "e", "r">>}

\* a ParserDefinition as the extraction pass creates it
ParserOf(name, vendor, product) ==
    [name |-> name, parser_type |-> <<"s", "y", "s", "l", "o", "g">>, file_path |-> <<"f", ".", "c", "o", "n", "f">>,
     metadata |-> [Metadata EXCEPT !.vendor = vendor, !.product = product],
     applications |-> << >>, nested_parsers |-> << >>,
     conditional_rewrites |-> << >>, raw_config |-> None,
     parse_error |-> None]

\* one call on a builder, with the parts its parser's name was written from
ExtractCalls ==
    {[self |-> 1, parts |-> d, parser |-> ParserOf(NameOf(d), v, p)] :
        d \in NameParts, v \in MetadataVendors, p \in MetadataProducts}

\* calls that share names across builders and metadata
RepeatedParts ==
    {[prefix |-> << >>, head |-> <<"c", "i", "s", "c", "o">>, tail |-> <<"a", "s", "a">>],
     [prefix |-> <<"a", "p", "p", "-", "s", "y", "s", "l", "o", "g", "-">>, head |-> <<"f", "5">>, tail |-> NoTail]}

RepeatedMetadata ==
    {<<None, None>>, <<<<"J", "u", "n", "i", "p", "e", "r">>, <<"i", "o", "s">>>>}

RepeatedCalls ==
    {[self |-> b, parts |-> d,
      parser |-> ParserOf(NameOf(d), m[1], m[2])] :
        b \in Builders, d \in RepeatedParts, m \in RepeatedMetadata}

NameAlphabet == {"a", "B", "5", "_", "-"}

TableKeys ==
    {e[1] : e \in VENDOR_MAPPINGS \cup special_cases}
      \cup {upper(e[1]) : e \in VENDOR_MAPPINGS \cup special_cases}
      \cup {title(e[1]) : e \in VENDOR_MAPPINGS \cup special_cases}

RawNames ==
    (SeqsUpTo(NameAlphabet, MaxNameLen) \ {<< >>}) \cup TableKeys
      \cup { <<"d", "e", "f", "a", "u", "l", "t">>, <<"f", "i", "r", "e", "_", "p", "o", "w", "e", "r">>, <<"c", "b", "-", "p", "r", "o", "t", "e", "c", "t", "_", "x">>}

InitExtract ==
    /\ parser_objects = << >>
    /\ tree_data = << >>
    /\ vendor_product_cache = [b \in Builders |-> << >>]
    /\ NoScraper
    /\ pc = "call"
    /\ ret = << >>
    /\ \/ /\ op = "extract_vendor_product"
          /\ \/ \E c \in ExtractCalls : arg = [calls |-> <<c>>]
             \/ \E cs \in SeqsUpTo(RepeatedCalls, MaxExtractCalls) :
                    cs # << >> /\ arg = [calls |-> cs]
       \/ /\ op \in {"_normalize_vendor_name", "_normalize_product_name"}
          /\ \E s \in RawNames : arg = [name |-> s]

\* the next call of the run; self.vendor_product_cache[parser.name] is
\* written when the name was not cached
ExtractVendorProduct ==
    /\ pc = "call"
    /\ op = "extract_vendor_product"
    /\ LET c == arg.calls[Len(ret) + 1]
           cache == vendor_product_cache[c.self]
           pair == extract_vendor_product(cache, c.parser)
       IN  /\ ret' = Append(ret, pair)
           /\ vendor_product_cache' =
                  [vendor_product_cache EXCEPT
                       ![c.self] = IF c.parser.name \in DOMAIN cache
                                   THEN cache
                                   ELSE CacheSet(cache, c.parser.name, pair)]
    /\ pc' = IF Len(ret) + 1 = Len(arg.calls) THEN "returned" ELSE "call"
    /\ UNCHANGED <<op, arg, parser_objects, tree_data, scraper>>

NormalizeVendorName ==
    /\ pc = "call"
    /\ op = "_normalize_vendor_name"
    /\ ret' = _normalize_vendor_name(arg.name)
    /\ pc' = "returned"
    /\ UNCHANGED <<op, arg, objects>>

NormalizeProductName ==
    /\ pc = "call"
    /\ op = "_normalize_product_name"
    /\ ret' = _normalize_product_name(arg.name)
    /\ pc' = "returned"
    /\ UNCHANGED <<op, arg, objects>>

NextExtract ==
    \/ ExtractVendorProduct
    \/ NormalizeVendorName
    \/ NormalizeProductName

SpecExtract == InitExtract /\ [][NextExtract]_vars

\* the calls of extract_vendor_product that have returned
Returned ==
    IF op = "extract_vendor_product" THEN 1..Len(ret) ELSE {}

\* call k is the first of the run on its builder: the builder is fresh
OnFresh(k) == \A j \in 1..(k - 1) : arg.calls[j].self # arg.calls[k].self

\* C12: on a fresh builder, the vendor returned for a parser whose metadata
\* carries a vendor is the normalized metadata vendor, and the product
\* returned for a parser whose metadata carries a product is the normalized
\* metadata product, each whatever the other field and the name yield.
C12_MetadataWins ==
    \A k \in Returned :
        OnFresh(k) =>
            LET metadata == arg.calls[k].parser.metadata
            IN  /\ Truthy(metadata.vendor) =>
                       ret[k][1] = _normalize_vendor_name(metadata.vendor)
                /\ Truthy(metadata.product) =>
                       ret[k][2] = _normalize_product_name(metadata.product)

\* the pair the name of call k is written from: the head up to the first
\* underscore and the tail after it, or the sentinel
DerivedPair(k) ==
    LET d == arg.calls[k].parts
    IN  <<d.head, IF d.tail = NoTail THEN <<"d", "e", "f", "a", "u", "l", "t">> ELSE d.tail>>

NoMetadataPair(k) ==
    LET metadata == arg.calls[k].parser.metadata
    IN  ~Truthy(metadata.vendor) /\ ~Truthy(metadata.product)

\* C13 as stated: on a fresh builder, for a parser with neither vendor nor
\* product in metadata, the pair returned is derived from the name without
\* one known prefix, split at its first underscore, and when there is no
\* underscore the product returned is the sentinel "default".
C13_Original ==
    \A k \in Returned :
        OnFresh(k) /\ NoMetadataPair(k) =>
            /\ ret[k][1] = Normalized(DerivedPair(k))[1]
            /\ ret[k][2] = IF arg.calls[k].parts.tail = NoTail
                           THEN <<"d", "e", "f", "a", "u", "l", "t">>
                           ELSE Normalized(DerivedPair(k))[2]

\* C13: on a fresh builder, for a parser with neither vendor nor product in
\* metadata, the pair returned is the normalized form of the pair derived
\* from the name without one known prefix, split at its first underscore;
\* when there is no underscore the whole remainder is the vendor derived
\* and the product returned is "Default", the normalized sentinel.
C13_Amended ==
    \A k \in Returned :
        OnFresh(k) /\ NoMetadataPair(k) =>
            /\ ret[k] = Normalized(DerivedPair(k))
            /\ arg.calls[k].parts.tail = NoTail => ret[k][2] = <<"D", "e", "f", "a", "u", "l", "t">>

\* a name with a prefix and no underscore has been resolved
C13_Witness ==
    \E k \in Returned :
        /\ OnFresh(k) /\ NoMetadataPair(k)
        /\ arg.calls[k].parts.tail = NoTail
        /\ arg.calls[k].parts.prefix # << >>
        /\ ret[k] = <<<<"A", "c", "m", "e">>, <<"D", "e", "f", "a", "u", "l", "t">>>>

\* the names of a table that name is found under, case apart
FoundIn(table, name) ==
    {e[2] : e \in {e \in table :
                      /\ Len(e[1]) = Len(name)
                      /\ \A k \in DOMAIN name :
                             ToLower(e[1][k]) = ToLower(name[k])}}

Separators == {"_", "-"}

\* raw title-cased, its separators turned into sep: the first letter of
\* every run of letters is a capital, the others are small
TitleCased(raw, sep) ==
    [k \in DOMAIN raw |->
        IF raw[k] \in Separators THEN sep
        ELSE IF raw[k] \in Range(Smalls) \cup Range(Capitals)
        THEN LET place == CHOOSE i \in 1..26 :
                              raw[k] \in {Smalls[i], Capitals[i]}
             IN  IF k > 1 /\ raw[k - 1] \in Range(Smalls) \cup Range(Capitals)
                 THEN Smalls[place] ELSE Capitals[place]
        ELSE raw[k]]

\* raw upper-cased, its underscores turned into hyphens
UpperCased(raw) ==
    [k \in DOMAIN raw |->
        IF raw[k] = "_" THEN "-"
        ELSE IF raw[k] \in Range(Smalls)
        THEN Capitals[CHOOSE i \in 1..26 : raw[k] = Smalls[i]]
        ELSE raw[k]]

ExpectedVendor(raw) ==
    IF FoundIn(VENDOR_MAPPINGS, raw) # {}
    THEN CHOOSE alias \in FoundIn(VENDOR_MAPPINGS, raw) : TRUE
    ELSE TitleCased(raw, " ")

ExpectedProduct(raw) ==
    IF FoundIn(special_cases, raw) # {}
    THEN CHOOSE form \in FoundIn(special_cases, raw) : TRUE
    ELSE IF Len(raw) <= 4 THEN UpperCased(raw)
    ELSE TitleCased(raw, "-")

SameBuilderAndName(j, k) ==
    /\ arg.calls[j].self = arg.calls[k].self
    /\ arg.calls[j].parser.name = arg.calls[k].parser.name

\* a later call for a name returns what the first call for it returned
ReturnsFirstPair ==
    \A k \in Returned :
        \A j \in 1..(k - 1) : SameBuilderAndName(j, k) => ret[k] = ret[j]

\* what a builder that was never called returns does not depend on the
\* calls made on the other builders
FreshUnaffected ==
    \A k \in Returned :
        OnFresh(k) => ret[k] = Normalized(Strategies(arg.calls[k].parser))

\* a step keeps every entry of every cache, and writes to no cache but
\* that of the builder called
CacheKept ==
    \A b \in Builders :
        /\ \A n \in DOMAIN vendor_product_cache[b] :
               /\ n \in DOMAIN vendor_product_cache'[b]
               /\ vendor_product_cache'[b][n] = vendor_product_cache[b][n]
        /\ b # arg.calls[Len(ret) + 1].self =>
               vendor_product_cache'[b] = vendor_product_cache[b]

\* C18: within one builder, once extract_vendor_product has returned a pair
\* for a parser name, every later call for a parser of that name returns
\* the same pair whatever its metadata; an entry of the cache is never
\* changed or removed; a fresh builder is not affected by the calls made on
\* another one.
C18_StaleCache ==
    /\ [](op = "extract_vendor_product" => ReturnsFirstPair /\ FreshUnaffected)
    /\ [][op = "extract_vendor_product" => CacheKept]_vars

\* a second call for a name has returned the pair of the first, which the
\* metadata of its own parser would not have given
C18_Witness ==
    \E k \in Returned :
        \E j \in 1..(k - 1) :
            /\ SameBuilderAndName(j, k)
            /\ ret[k] = ret[j]
            /\ ret[k] # Normalized(Strategies(arg.calls[k].parser))
(***************************************************************************)
(* A run after its extraction pass: the parser definitions collected are   *)
(* handed to build_hierarchy, and the hierarchy to the graph builder.      *)
(***************************************************************************)
\* most parser definitions collected by a run
MaxParsers == 2

HierNames == { <<"c", "i", "s", "c", "o", "_", "i", "o", "s">>, <<"c", "i", "s", "c", "o", "_", "a", "s", "a">>, <<"_", "x">>}

\* vendor and product of the metadata: neither, or both
HierMetadata == {<<None, None>>, <<<<"J", "u", "n", "i", "p", "e", "r">>, <<"i", "o", "s">>>>}

\* parser_type and index of the metadata
HierKinds == {<<<<"s", "y", "s", "l", "o", "g">>, None>>, <<<<"j", "s", "o", "n">>, <<"n", "e", "t", "f", "w">>>>}

HierParsers ==
    {[ParserOf(n, m[1], m[2]) EXCEPT
          !.parser_type = t[1], !.metadata.index = t[2],
          !.parse_error = IF t[2] = None THEN None ELSE <<"b", "o", "o", "m">>] :
        n \in HierNames, m \in HierMetadata, t \in HierKinds}

\* datetime.utcnow() at two moments
Clock == { <<"t", "1">>, <<"t", "2">>}

\* hierarchy_builder = HierarchyBuilder(): the one builder of a run
hierarchy_builder == 1

\* self.vendor_product_cache = {}
NoCache == << >>

InitHier ==
    /\ parser_objects \in SeqsUpTo(HierParsers, MaxParsers)
    /\ vendor_product_cache = <<NoCache>>
    /\ tree_data = << >>
    /\ NoScraper
    /\ op = "scrape"
    /\ arg = << >>
    /\ ret = << >>
    /\ pc = "call"

\* tree_data = hierarchy_builder.build_hierarchy(all_parsers)
BuildHierarchy ==
    \E now \in Clock :
        LET b == hierarchy_builder
            caches == CachesThrough(vendor_product_cache[b], parser_objects)
        IN  /\ tree_data' = HierarchyOfPairs(parser_objects,
                                PairsOf(parser_objects, caches), now)
            /\ vendor_product_cache' =
                   [vendor_product_cache EXCEPT
                        ![b] = caches[Len(parser_objects)]]
            /\ arg' = [self |-> b, parsers |-> parser_objects,
                       cache |-> vendor_product_cache[b]]
            /\ ret' = tree_data'
            /\ op' = "build_hierarchy"
            /\ pc' = "returned"
            /\ UNCHANGED <<parser_objects, scraper>>

\* the views of the hierarchy built: by vendor and product
BuildVendorHierarchy ==
    /\ tree_data # << >>
    /\ op' = "build_vendor_hierarchy"
    /\ arg' = [tree_data |-> tree_data]
    /\ ret' = build_vendor_hierarchy(tree_data)
    /\ pc' = "returned"
    /\ UNCHANGED objects

\* by parser type and vendor
BuildTypeHierarchy ==
    /\ tree_data # << >>
    /\ op' = "build_type_hierarchy"
    /\ arg' = [tree_data |-> tree_data]
    /\ ret' = build_type_hierarchy(tree_data)
    /\ pc' = "returned"
    /\ UNCHANGED objects

\* by index and vendor
BuildIndexHierarchy ==
    /\ tree_data # << >>
    /\ op' = "build_index_hierarchy"
    /\ arg' = [tree_data |-> tree_data]
    /\ ret' = build_index_hierarchy(tree_data)
    /\ pc' = "returned"
    /\ UNCHANGED objects

\* flat_list = graph_builder.build_flat_list(tree_data)
BuildFlatList ==
    /\ tree_data # << >>
    /\ op' = "build_flat_list"
    /\ arg' = [tree_data |-> tree_data]
    /\ ret' = build_flat_list(tree_data)
    /\ pc' = "returned"
    /\ UNCHANGED objects

NextHier ==
    \/ BuildHierarchy
    \/ BuildVendorHierarchy
    \/ BuildTypeHierarchy
    \/ BuildIndexHierarchy
    \/ BuildFlatList

SpecHier == InitHier /\ [][NextHier]_vars

\* build_hierarchy has returned
Built == op = "build_hierarchy" /\ pc = "returned"

\* the pair determined for input k of build_hierarchy: the pair the builder
\* had cached for its name, else the pair of the first input of that name
DeterminedPair(k) ==
    LET name == arg.parsers[k].name
        first == CHOOSE j \in 1..k :
                     /\ arg.parsers[j].name = name
                     /\ \A h \in 1..(j - 1) : arg.parsers[h].name # name
    IN  IF name \in DOMAIN arg.cache THEN arg.cache[name]
        ELSE Normalized(Strategies(arg.parsers[first]))

\* the inputs with a non-empty vendor and a non-empty product determined
Determined ==
    {k \in DOMAIN arg.parsers :
        DeterminedPair(k)[1] # << >> /\ DeterminedPair(k)[2] # << >>}

\* the places of a hierarchy: one per parser of one product of one vendor
PlacesOf(tree) ==
    {<<v, p, k>> \in (1..MaxParsers) \X (1..MaxParsers) \X (1..MaxParsers) :
        /\ v <= Len(tree.vendors)
        /\ p <= Len(tree.vendors[v].products)
        /\ k <= Len(tree.vendors[v].products[p].parsers)}

ParserAt(tree, place) ==
    tree.vendors[place[1]].products[place[2]].parsers[place[3]]

PairAt(tree, place) ==
    <<tree.vendors[place[1]].name,
      tree.vendors[place[1]].products[place[2]].name>>

Describes(node, parser) ==
    /\ node.name = parser.name
    /\ node.parser_type = parser.parser_type
    /\ node.file_path = parser.file_path
    /\ node.metadata = Metadata_to_dict(parser.metadata)

\* C16: the flat list of a run contains every parser definition the run
\* collected, those that build_hierarchy left out of the hierarchy too.
C16_FlatListHasEveryParser ==
    op = "build_flat_list" /\ pc = "returned" =>
        \A k \in DOMAIN parser_objects :
            \E i \in DOMAIN ret : Describes(ret[i], parser_objects[k])

\* the names of a list of nodes, vendors or products
NamesOf(nodes) == [k \in DOMAIN nodes |-> nodes[k].name]

\* pairwise distinct and in ascending lexicographic order
Ascending(names) ==
    \A i, j \in DOMAIN names : i < j => StrLess(names[i], names[j])

\* a view has returned
Viewed ==
    /\ pc = "returned"
    /\ op \in {"build_vendor_hierarchy", "build_type_hierarchy",
               "build_index_hierarchy"}

\* C17: in the output of build_hierarchy the vendor names are pairwise
\* distinct and ascending, and so are the product names of each vendor; in
\* each of the three views the names of the groups of the first level are
\* pairwise distinct and ascending, and so are those of the groups inside
\* each of them.
C17_SortedDistinctKeys ==
    /\ Built =>
           /\ Ascending(NamesOf(ret.vendors))
           /\ \A v \in DOMAIN ret.vendors :
                  Ascending(NamesOf(ret.vendors[v].products))
    /\ Viewed =>
           /\ Ascending(NamesOf(ret.children))
           /\ \A g \in DOMAIN ret.children :
                  Ascending(NamesOf(ret.children[g].children))

\* an index view of two groups has been built from a hierarchy whose first
\* parser is in the second group
C17_Witness ==
    /\ Viewed /\ op = "build_index_hierarchy"
    /\ Len(ret.children) = 2
    /\ Len(parser_objects) = 2
    /\ IndexKey(parser_objects[1]) = ret.children[2].name
    /\ ret.children[2].children[1].children[1].name = parser_objects[1].name

\* the node that shows the parser at a place of a hierarchy
NodeFor(tree, place) ==
    _build_parser_node(ParserAt(tree, place), PairAt(tree, place)[1],
                       PairAt(tree, place)[2])

\* the leaves of a view: parser k of group s of group g of the root
LeavesOf(view) ==
    {<<g, s, k>> \in (1..MaxParsers) \X (1..MaxParsers) \X (1..MaxParsers) :
        /\ g <= Len(view.children)
        /\ s <= Len(view.children[g].children)
        /\ k <= Len(view.children[g].children[s].children)}

LeafAt(view, leaf) ==
    view.children[leaf[1]].children[leaf[2]].children[leaf[3]]

\* the names of the two groups a leaf is under
GroupsAt(view, leaf) ==
    <<view.children[leaf[1]].name,
      view.children[leaf[1]].children[leaf[2]].name>>

\* the names of the two groups the parser node belongs under in a view
GroupsFor(view_op, node) ==
    CASE view_op = "build_vendor_hierarchy" -> <<node.vendor, node.product>>
      [] view_op = "build_type_hierarchy" ->
             <<upper(node.parser_type), node.vendor>>
      [] view_op = "build_index_hierarchy" ->
             <<IF "index" \in DOMAIN node.metadata
                  /\ node.metadata.index # << >>
               THEN node.metadata.index ELSE <<"u", "n", "k", "n", "o", "w", "n">>,
               node.vendor>>

\* as many places of the hierarchy as items of shown are for each node,
\* and every item of shown is the node of a place
ShowsEachOnce(tree, shown) ==
    /\ \A i \in DOMAIN shown :
           \E place \in PlacesOf(tree) : shown[i] = NodeFor(tree, place)
    /\ \A place \in PlacesOf(tree) :
           Cardinality({i \in DOMAIN shown : shown[i] = NodeFor(tree, place)})
             = Cardinality({other \in PlacesOf(tree) :
                               NodeFor(tree, other) = NodeFor(tree, place)})

\* the leaves of a view, in any order
LeafList(view) ==
    LET leaves == LeavesOf(view)
        order == CHOOSE f \in [1..Cardinality(leaves) -> leaves] :
                     \A i, j \in DOMAIN f : i # j => f[i] # f[j]
    IN  [i \in DOMAIN order |-> LeafAt(view, order[i])]

\* C19: the vendor view, the type view, the index view and the flat list of
\* a hierarchy each hold every parser of the hierarchy exactly once and no
\* other; in the vendor view a parser is under its vendor and product, in
\* the type view under its parser type and its vendor, in the index view
\* under its metadata index, "unknown" if it has none, and its vendor.
C19_ViewsHoldEachParserOnce ==
    /\ Viewed =>
           /\ ShowsEachOnce(arg.tree_data, LeafList(ret))
           /\ \A leaf \in LeavesOf(ret) :
                  GroupsAt(ret, leaf) = GroupsFor(op, LeafAt(ret, leaf))
    /\ op = "build_flat_list" /\ pc = "returned" =>
           ShowsEachOnce(arg.tree_data, ret)

\* a type view has been built of a hierarchy of two parsers of one vendor
\* and two types
C19_Witness ==
    /\ Viewed /\ op = "build_type_hierarchy"
    /\ Cardinality(PlacesOf(arg.tree_data)) = 2
    /\ Len(arg.tree_data.vendors) = 1
    /\ Len(ret.children) = 2

\* the definitions as the extraction pass created them are those the run
\* holds, and those the hierarchy holds are among them
HoldsWhatWasCreated ==
    tree_data # << >> =>
        \A place \in PlacesOf(tree_data) :
            ParserAt(tree_data, place) \in Range(parser_objects)

\* what a view or the flat list shows of a parser are the values of the
\* fields of a definition of the run
ShowsWhatWasCreated ==
    /\ Viewed =>
           \A leaf \in LeavesOf(ret) :
               \E k \in DOMAIN parser_objects :
                   LeafAt(ret, leaf)
                     = _build_parser_node(parser_objects[k],
                           LeafAt(ret, leaf).vendor,
                           LeafAt(ret, leaf).product)
    /\ op = "build_flat_list" /\ pc = "returned" =>
           \A i \in DOMAIN ret :
               \E k \in DOMAIN parser_objects :
                   ret[i] = _build_parser_node(parser_objects[k],
                                ret[i].vendor, ret[i].product)

\* C20: build_hierarchy, the three view builders and build_flat_list only
\* read the parser definitions: whatever the sequence of these operations,
\* no step changes a field of a definition of the run, and the definitions
\* in the hierarchy, the views and the flat list have the field values they
\* were created with.
C20_ReadOnly ==
    /\ [][parser_objects' = parser_objects]_vars
    /\ [](HoldsWhatWasCreated /\ ShowsWhatWasCreated)

\* a builder has built its second hierarchy of the definitions, after a
\* first one
C20_Witness ==
    /\ Built
    /\ arg.cache # << >>
    /\ Cardinality(PlacesOf(tree_data)) = 2
    /\ Range(parser_objects)
         = {ParserAt(tree_data, place) : place \in PlacesOf(tree_data)}
(***************************************************************************)
(* infer_parser_type called on parser names and bodies.                    *)
(***************************************************************************)
\* most pieces a parser name is made of
MaxNameParts == 2

\* most pieces a body is made of
MaxBodyParts == 2

\* pieces of names: the keywords in lower, upper and mixed case, the halves
\* of a keyword, a prefix and a vendor_product part that hold no keyword
InferNameParts ==
    { <<"a", "p", "p", "-">>, <<"s", "y", "s", "l", "o", "g">>, <<"J", "S", "O", "N">>, <<"C", "e", "f">>, <<"l", "e", "e", "f">>, <<"r", "a", "w">>, <<"s", "y", "s">>,
      <<"l", "o", "g">>, <<"f", "5", "_", "x">> }

\* pieces of bodies: an invocation of the JSON parser, the keywords in
\* either case, a statement that holds none
InferBodyParts ==
    { <<"j", "s", "o", "n", "-", "p", "a", "r", "s", "e", "r", "(">>, <<"J", "S", "O", "N", "-", "P", "a", "r", "s", "e", "r", " ", "(">>, <<"c", "e", "f">>, <<"L", "E", "E", "F">>, <<"l", "e", "e", "f">>,
      <<"x", "(", ")", ";">>, <<"j", "s", "o", "n">> }

RECURSIVE Joined(_)
\* the pieces written one after the other
Joined(pieces) ==
    IF pieces = << >> THEN << >> ELSE Head(pieces) \o Joined(Tail(pieces))

InitInfer ==
    /\ NoObjects
    /\ pc = "call"
    /\ ret = << >>
    /\ op = "infer_parser_type"
    /\ \E name \in SeqsUpTo(InferNameParts, MaxNameParts),
          body \in SeqsUpTo(InferBodyParts, MaxBodyParts) :
           arg = [parser_name |-> Joined(name),
                  parser_content |-> Joined(body)]

InferParserType ==
    /\ pc = "call"
    /\ op = "infer_parser_type"
    /\ ret' = infer_parser_type(arg.parser_name, arg.parser_content)
    /\ pc' = "returned"
    /\ UNCHANGED <<op, arg, objects>>

NextInfer == InferParserType

SpecInfer == InitInfer /\ [][NextInfer]_vars

\* the format keywords
FormatKeywords == { <<"s", "y", "s", "l", "o", "g">>, <<"j", "s", "o", "n">>, <<"c", "e", "f">>, <<"l", "e", "e", "f">>, <<"r", "a", "w">> }

\* text holds the keyword in some letter case
Holds(text, keyword) ==
    \E i \in 0..(Len(text) - Len(keyword)) :
        \A k \in 1..Len(keyword) :
            ToLower(text[i + k]) = ToLower(keyword[k])

MaxBranches == 3

\* most auxiliary-parser statements in one body
MaxNested == 3

\* conditions: a predicate call, a call of a predicate with no pattern of
\* its own, a bare word with blanks around it
LadderConditions == {"call", "other", "padded"}

ConditionText(cond) ==
    CASE cond = "call" -> <<"program", "(", "\"", "sshd", "\"", ")">>
      [] cond = "other" -> <<"match", "(", "\"", "x", "\"", ")">>
      [] cond = "padded" -> <<" ", "x", " ">>
      [] cond = "none" -> << >>

LadderVendors == {<<"a">>, <<"b">>}

\* if and elif branches differ in their condition, else branches in the
\* vendor their body sets
Branches ==
    [kw : {"if", "elif"}, cond : LadderConditions, vendor : {<<"a">>}]
      \cup [kw : {"else"}, cond : {"none"}, vendor : LadderVendors]

KeywordText(kw) == IF kw = "elif" THEN <<"el", "if">> ELSE <<kw>>

\* a branch and the line end after it
BranchText(b) ==
    KeywordText(b.kw)
      \o (IF b.kw = "else" THEN << >>
          ELSE <<" ", "(">> \o ConditionText(b.cond) \o <<")">>)
      \o <<" ", "{", " ", "r_set_splunk_dest_default", "(", "vendor", "(",
           "\"">> \o b.vendor \o <<"\"", ")", ")", ";", " ", "}", "\n">>

RECURSIVE LadderText(_)
LadderText(branches) ==
    IF branches = << >> THEN << >>
    ELSE BranchText(Head(branches)) \o LadderText(Tail(branches))

\* statements: an invocation of a recognized kind as the pattern spells it,
\* in capitals, with a blank before the argument list; a recognized kind
\* that is named and not invoked; an invocation of another kind
NestedStatements ==
    {[kind |-> <<"csv", "-", "parser">>, args |-> <<"(">>],
     [kind |-> <<"CSV", "-", "Parser">>, args |-> <<"(">>],
     [kind |-> <<"kv", "-", "parser">>, args |-> <<" ", "(">>],
     [kind |-> <<"json", "-", "parser">>, args |-> <<"(">>],
     [kind |-> <<"date", "-", "parser">>, args |-> << >>],
     [kind |-> <<"xml", "-", "parser">>, args |-> <<"(">>]}

StatementText(st) ==
    st.kind \o st.args \o (IF st.args = << >> THEN << >> ELSE <<")">>)
      \o <<";", "\n">>

RECURSIVE NestedText(_)
NestedText(statements) ==
    IF statements = << >> THEN << >>
    ELSE StatementText(Head(statements)) \o NestedText(Tail(statements))

\* condition texts handed to _parse_condition_filter: the calls of the
\* filter bodies, a bare word, a call with a type clause after it
ConditionTexts ==
    {[call |-> c, condition |-> CallText(c)] : c \in FilterCalls}
      \cup {[call |-> [name |-> "none", form |-> "word"],
             condition |-> <<"x">>],
            [call |-> [name |-> "program", form |-> "after"],
             condition |-> <<"program", "(", "\"", "sshd", "\"", ")", " ",
                             "type", "(", "glob", ")">>]}

InitLadder ==
    /\ NoObjects
    /\ pc = "call"
    /\ ret = << >>
    /\ \/ /\ op = "parse_conditional_rewrites"
          /\ \E branches \in SeqsUpTo(Branches, MaxBranches) :
                 arg = [content |-> LadderText(branches),
                        branches |-> branches]
       \/ /\ op = "_parse_condition_filter"
          /\ arg \in ConditionTexts
       \/ /\ op = "parse_block_parser"
          /\ \E branches \in SeqsUpTo(Branches, MaxBranches),
                statements \in SeqsUpTo(NestedStatements, MaxNested) :
                 /\ branches = << >> \/ statements = << >>
                 /\ arg = [parser_name |-> <<"p">>,
                           parser_content |-> LadderText(branches)
                                                \o NestedText(statements),
                           branches |-> branches,
                           statements |-> statements]

ParseConditionalRewrites ==
    /\ pc = "call"
    /\ op = "parse_conditional_rewrites"
    /\ ret' = parse_conditional_rewrites(arg.content)
    /\ pc' = "returned"
    /\ UNCHANGED <<op, arg, objects>>

ParseConditionFilter ==
    /\ pc = "call"
    /\ op = "_parse_condition_filter"
    /\ ret' = _parse_condition_filter(arg.condition)
    /\ pc' = "returned"
    /\ UNCHANGED <<op, arg, objects>>

ParseBlockParser ==
    /\ pc = "call"
    /\ op = "parse_block_parser"
    /\ ret' = parse_block_parser(arg.parser_name, arg.parser_content)
    /\ pc' = "returned"
    /\ UNCHANGED <<op, arg, objects>>

NextLadder ==
    \/ ParseConditionalRewrites
    \/ ParseConditionFilter
    \/ ParseBlockParser

SpecLadder == InitLadder /\ [][NextLadder]_vars

\* what tells a record from the others: its type, the text of its
\* condition, the vendor of its metadata
RecordKey(cr) ==
    <<cr.condition_type,
      IF cr.condition = << >> THEN None ELSE cr.condition[1].raw,
      cr.metadata.vendor>>

\* the same of a branch as it is written
BranchKey(b) ==
    <<Str(b.kw),
      IF b.kw = "else" THEN None ELSE Strip(ConditionText(b.cond), Ws),
      b.vendor>>

RecordKeys(crs) == [k \in DOMAIN crs |-> RecordKey(crs[k])]

\* the keys of the branches of one keyword, in textual order
KeysOfKeyword(branches, kw) ==
    LET at == SelectIdx(branches,
                        {k \in 1..Len(branches) : branches[k].kw = kw})
    IN  [k \in DOMAIN at |-> BranchKey(at[k])]

\* C22: parse_conditional_rewrites returns exactly one record per branch of
\* the text: the if branches in textual order, then the elif branches in
\* textual order, then the else branches in textual order; an elif branch
\* yields one record of type elif and none of type if.
C22_OneRecordPerBranch ==
    pc = "returned" /\ op = "parse_conditional_rewrites" =>
        RecordKeys(ret) = KeysOfKeyword(arg.branches, "if")
                            \o KeysOfKeyword(arg.branches, "elif")
                            \o KeysOfKeyword(arg.branches, "else")

\* C23: the conditional_rewrites of a block parser are in evaluation
\* order: record i precedes record j exactly when branch i is written
\* before branch j, so the records are the branches in textual order.
C23_EvaluationOrder ==
    pc = "returned" /\ op = "parse_block_parser" =>
        RecordKeys(ret[2])
            = [k \in DOMAIN arg.branches |-> BranchKey(arg.branches[k])]

\* the text holds no program, message or host call that the patterns of
\* the filter expression parser recognize
NoRecognizableCall(text) ==
    _parse_program_filters(text) \o _parse_message_filters(text)
      \o _parse_host_filters(text) = << >>

\* the generic predicate that stores a condition text verbatim
GenericCondition(text) ==
    FilterExpression(Str("filter"), text, Str("string"), << >>, text)

\* C24: every record of type if or elif carries a condition and every
\* record of type else carries none; a condition text that holds no
\* recognizable program, message or host call is stored as a
\* FilterExpression of kind filter whose pattern and raw are the whole
\* condition text (the text between the parentheses, without the white
\* space around it), with match_type string and no flags.
C24_ConditionCarried ==
    /\ pc = "returned" /\ op = "parse_conditional_rewrites" =>
           /\ \A k \in DOMAIN ret :
                  IF ret[k].condition_type = Str("else")
                  THEN ret[k].condition = << >>
                  ELSE Len(ret[k].condition) = 1
           /\ \A n \in DOMAIN arg.branches :
                  LET b == arg.branches[n]
                      text == Strip(ConditionText(b.cond), Ws)
                  IN  b.kw # "else" /\ NoRecognizableCall(text) =>
                          \E k \in DOMAIN ret :
                              /\ ret[k].condition_type = Str(b.kw)
                              /\ ret[k].condition = <<GenericCondition(text)>>
    /\ pc = "returned" /\ op = "_parse_condition_filter" =>
           /\ Len(ret) = 1
           /\ NoRecognizableCall(arg.condition) =>
                  ret[1] = GenericCondition(arg.condition)

\* a body with an if branch whose condition is a bare word with blanks
\* around it and an else branch has been parsed: the first record holds
\* the word as a generic predicate, the last holds no condition
C24_Witness ==
    /\ pc = "returned"
    /\ op = "parse_conditional_rewrites"
    /\ arg.branches = <<[kw |-> "if", cond |-> "padded", vendor |-> <<"a">>],
                        [kw |-> "else", cond |-> "none", vendor |-> <<"b">>]>>
    /\ Len(ret) = 2
    /\ ret[1].condition = <<GenericCondition(<<"x">>)>>
    /\ ret[2].condition = << >>

\* C25: a condition that is a program, message or host call written as in
\* the grammar, with a type(...) or flags(...) clause inside the call or
\* with none, gives the kind, pattern, match_type and flags that the filter
\* expression parser gives for the same text; the flags are the tokens
\* between the commas, trimmed, without quote characters, none empty, so
\* that the flags rule leaves each of them as it is.
C25_SameAsFilterParser ==
    /\ pc = "returned"
    /\ op = "_parse_condition_filter"
    /\ arg.call.name \in {"program", "message", "host"}
    /\ arg.call.form \in {"plain", "typed", "flagged"}
    => LET filters == parse_filter_block(arg.condition)
       IN  /\ Len(filters) = 1
           /\ ret[1].filter_type = filters[1].filter_type
           /\ ret[1].pattern = filters[1].pattern
           /\ ret[1].match_type = filters[1].match_type
           /\ ret[1].flags = filters[1].flags
           /\ \A k \in DOMAIN ret[1].flags :
                  _parse_flags(ret[1].flags[k]) = <<ret[1].flags[k]>>

\* the recognized auxiliary parser kinds
RecognizedKinds ==
    {<<NestedKinds[k], "-", "parser">> : k \in DOMAIN NestedKinds}

\* the items of a list without those that occurred before
FirstOccurrences(list) ==
    SelectIdx(list, {k \in 1..Len(list) :
                         \A h \in 1..(k - 1) : list[h] # list[k]})

\* the recognized kinds that the statements invoke, in the letter case of
\* the grammar
InvokedKinds(statements) ==
    LET at == SelectIdx(statements,
                  {k \in 1..Len(statements) :
                       /\ statements[k].args # << >>
                       /\ LowerStr(statements[k].kind) \in RecognizedKinds})
    IN  [k \in DOMAIN at |-> LowerStr(at[k].kind)]

\* C26: nested_parsers holds each recognized auxiliary parser kind that the
\* body invokes exactly once, in the order of first occurrence, and nothing
\* else; a kind invoked several times, in whatever letter case, is listed
\* once.
C26_EachKindOnce ==
    pc = "returned" /\ op = "parse_block_parser" =>
        [k \in DOMAIN ret[3] |-> LowerStr(ret[3][k])]
            = FirstOccurrences(InvokedKinds(arg.statements))

(***************************************************************************)
(* A file fetcher at work: files are fetched, the cache is cleared and     *)
(* time passes.  GitHub has quota to spare and answers a request for a     *)
(* file with a file, a directory, 404 or another error.                    *)
(***************************************************************************)
\* the clock stops after that many times the time to live of the cache
MaxTtls == 2

\* the files asked for
FetchPaths == {<<"s", "/", "a">>, <<"b">>}

\* what a file on GitHub holds: nothing, a line, a line that ends in \r\n
FetchContents == {<< >>, <<"x", "\n">>, <<"x", "\r", "\n">>}

\* the answers of GitHub to repo.get_contents(file_path, ref=ref)
FileAnswers ==
    {[kind |-> "file", content |-> c] : c \in FetchContents}
      \cup {[kind |-> "dir"]}
      \cup {[kind |-> "error", status |-> st] : st \in {404, 500}}

\* the rate limit GitHub reports at time now to a client within its
\* quota: the 60 requests of an hour
Ample(now) == [remaining |-> 60, reset |-> now + timedelta(1)]

\* the cache a run before this one left: nothing, a file cached at time 0
\* or the entry of a file that was removed since
CacheLeft ==
    {[cache_index |-> << >>, cache_files |-> << >>]}
      \cup {save_to_cache(<< >>, << >>, 0, <<"b">>, <<"x", "\n">>)}
      \cup {[cache_index |->
                 save_to_cache(<< >>, << >>, 0, <<"b">>, << >>).cache_index,
             cache_files |-> << >>]}

InitFetcher ==
    /\ parser_objects = << >>
    /\ vendor_product_cache = << >>
    /\ tree_data = << >>
    /\ \E left \in CacheLeft :
           /\ cache_index = left.cache_index
           /\ cache_files = left.cache_files
    /\ clock = 0
    /\ rate_limiter = RateLimiter(rate_limit_buffer)
    /\ _repo_cache = None
    /\ requests = << >>
    /\ op = "FileFetcher"
    /\ arg = << >>
    /\ ret = << >>
    /\ pc = "returned"

\* the fetcher and the clock as a call finds them
Self == [cache_index |-> cache_index, cache_files |-> cache_files,
         now |-> clock]

\* the state a call of the fetcher leaves
Leaves(left) ==
    /\ cache_index' = left.cache_index
    /\ cache_files' = left.cache_files
    /\ rate_limiter' = left.rate_limiter
    /\ clock' = left.now
    /\ requests' = left.requests
    /\ ret' = left.outcome.value
    /\ pc' = IF left.outcome.raised THEN "raised" ELSE "returned"

FetchFile ==
    \E file_path \in FetchPaths, use_cache \in BOOLEAN,
       force_refresh \in BOOLEAN, answer \in FileAnswers :
        /\ Leaves(fetch_file(cache_index, cache_files, rate_limiter, clock,
                             file_path, use_cache, force_refresh,
                             Ample(clock), Ample(clock), answer))
        /\ op' = "fetch_file"
        /\ arg' = [self |-> Self, file_path |-> file_path,
                   use_cache |-> use_cache, force_refresh |-> force_refresh]
        /\ UNCHANGED <<parser_objects, vendor_product_cache, tree_data,
                       _repo_cache>>

ClearCache ==
    /\ cache_index' = clear_cache(cache_index, cache_files).cache_index
    /\ cache_files' = clear_cache(cache_index, cache_files).cache_files
    /\ op' = "clear_cache"
    /\ arg' = [self |-> Self]
    /\ ret' = None
    /\ pc' = "returned"
    /\ requests' = << >>
    /\ UNCHANGED <<parser_objects, vendor_product_cache, tree_data, clock,
                   rate_limiter, _repo_cache>>

\* between two calls: all but a second of the time to live passes, or all
\* of it
TimePasses ==
    \E d \in {cache_ttl - 1, cache_ttl} :
        /\ clock + d <= MaxTtls * cache_ttl
        /\ clock' = clock + d
        /\ UNCHANGED <<op, arg, ret, pc, parser_objects,
                       vendor_product_cache, tree_data, cache_index,
                       cache_files, rate_limiter, _repo_cache, requests>>

NextFetcher ==
    \/ FetchFile
    \/ ClearCache
    \/ TimePasses

SpecFetcher == InitFetcher /\ [][NextFetcher]_vars

\* the path asked for had, when fetch_file was called, an entry in the
\* cache index whose cache file existed and whose age was less than the
\* time to live
HadValidEntry ==
    /\ arg.file_path \in DOMAIN arg.self.cache_index
    /\ arg.self.cache_index[arg.file_path].cache_path
           \in DOMAIN arg.self.cache_files
    /\ arg.self.now - arg.self.cache_index[arg.file_path].cached_at
           < cache_ttl

\* the content of the cache file of the path asked for, as it is read,
\* when fetch_file was called
WasCached ==
    ReadText(arg.self.cache_files[
                 arg.self.cache_index[arg.file_path].cache_path])

\* the call asked GitHub for the file
AskedGitHub ==
    \E k \in 1..Len(requests) :
        /\ requests[k].api = "get_contents"
        /\ requests[k].path = arg.file_path

\* fetch_file has returned content it got from GitHub and stored
Stored ==
    /\ op = "fetch_file"
    /\ pc = "returned"
    /\ AskedGitHub
    /\ ret # None
    /\ arg.use_cache

\* a fetch_file of the same path that follows after d seconds, cache in
\* use and no refresh forced
Following(d, answer) ==
    fetch_file(cache_index, cache_files, rate_limiter, clock + d,
               arg.file_path, TRUE, FALSE, Ample(clock + d),
               Ample(clock + d), answer)

\* C28: fetch_file with use_cache true and force_refresh false returns the
\* cached content without any request to GitHub exactly when the path has
\* a cache-index entry whose cache file exists and whose age is less than
\* the TTL; in every other case it requests the file from GitHub, and when
\* content is returned and use_cache is true it stores it, so that an
\* immediately following fetch_file of the same path (within the TTL) is a
\* cache hit returning that same content.
C28_CacheHitOrRequest ==
    /\ op = "fetch_file" /\ arg.use_cache /\ ~arg.force_refresh =>
           /\ HadValidEntry =>
                  /\ requests = << >>
                  /\ pc = "returned"
                  /\ ret = WasCached
           /\ ~HadValidEntry => AskedGitHub
    /\ Stored =>
           \A d \in {0, cache_ttl - 1}, answer \in FileAnswers :
               clock + d - cache_index[arg.file_path].cached_at < cache_ttl
                   => /\ Following(d, answer).requests = << >>
                      /\ Following(d, answer).outcome.value = ret

\* the cache index and the cached files are as the call found them
CacheUnchanged ==
    /\ cache_index = arg.self.cache_index
    /\ cache_files = arg.self.cache_files

\* the entry of the path asked for holds the content returned, cached at
\* the time of the call
EntryReplaced ==
    /\ arg.file_path \in DOMAIN cache_index
    /\ cache_index[arg.file_path].cached_at = arg.self.now
    /\ cache_index[arg.file_path].cache_path \in DOMAIN cache_files
    /\ cache_files[cache_index[arg.file_path].cache_path] = ret

\* every fetch_file that could follow now asks GitHub
NextFetchAsksGitHub ==
    \A file_path \in FetchPaths, use_cache \in BOOLEAN,
       force_refresh \in BOOLEAN :
        \E k \in 1..3 :
            LET sent == fetch_file(cache_index, cache_files, rate_limiter,
                                   clock, file_path, use_cache,
                                   force_refresh, Ample(clock),
                                   Ample(clock), [kind |-> "dir"]).requests
            IN  /\ k <= Len(sent)
                /\ sent[k].api = "get_contents"
                /\ sent[k].path = file_path

\* C29: fetch_file with force_refresh true always requests the file from
\* GitHub even when a valid cache entry exists, and on success replaces
\* that entry's content and timestamp; when the GitHub request returns no
\* content (file not found) or use_cache is false, the cache index and the
\* cached files are left unchanged, and clear_cache leaves the index empty
\* so that the next fetch_file of any path goes to GitHub.
C29_ForcedRefresh ==
    /\ op = "fetch_file" /\ arg.force_refresh =>
           /\ AskedGitHub
           /\ pc = "returned" /\ ret # None /\ arg.use_cache
                  => EntryReplaced
    /\ op = "fetch_file" /\ AskedGitHub
           /\ (pc = "raised" \/ ret = None \/ ~arg.use_cache)
           => CacheUnchanged
    /\ op = "clear_cache" =>
           /\ cache_index = << >>
           /\ NextFetchAsksGitHub

\* a forced refresh of a path with a valid entry has replaced the content
\* and the time of the entry
C29_Witness ==
    /\ op = "fetch_file"
    /\ pc = "returned"
    /\ arg.force_refresh
    /\ arg.use_cache
    /\ HadValidEntry
    /\ arg.self.now = cache_ttl - 1
    /\ ret = <<"x", "\r", "\n">>
    /\ WasCached = <<"x", "\n">>
    /\ cache_index[arg.file_path].cached_at = cache_ttl - 1
(***************************************************************************)
(* A GitHub client at work: the repository is loaded, directories are      *)
(* listed and files are read, and GitHub reports the rate limit it likes.  *)
(***************************************************************************)
\* the clock stops after that many waits for the reset of the quota
MaxWaits == 2

\* the buffer the client is built with: the default, or more than the 60
\* requests an hour of a client that is not authenticated
Buffers == {rate_limit_buffer, 100}

\* the quota GitHub reports as remaining
Quotas == {rate_limit_buffer - 1, rate_limit_buffer, 60}

\* the rate limit GitHub reports at time now: the reset is an hour ahead,
\* or 5 seconds back on the clock of a machine that runs fast
RateLimits(now) ==
    [remaining : Quotas, reset : {now - 5, now + timedelta(1)}]

\* the rate limit GitHub reports after a wait
Refreshed(now) == [remaining : Quotas, reset : {now + timedelta(1)}]

ClientPaths == {<<"d">>, <<"d", "/", "f">>}

RepoNames == {<<"o", "/", "r">>, <<"o", "/", "q">>}

\* the answers of GitHub to repo.get_contents(path, ref=ref)
ContentAnswers ==
    {[kind |-> "file", content |-> <<"x", "\n">>,
      entry |-> <<"d", "/", "f">>],
     [kind |-> "dir", entries |-> <<<<"d", "/", "f">>>>],
     [kind |-> "error", status |-> 404],
     [kind |-> "error", status |-> 500]}

\* the answers of GitHub to github.get_repo(repo_name)
RepoAnswers == {[kind |-> "repo"], [kind |-> "error", status |-> 404]}

InitClient ==
    /\ parser_objects = << >>
    /\ vendor_product_cache = << >>
    /\ tree_data = << >>
    /\ cache_index = << >>
    /\ cache_files = << >>
    /\ clock = 0
    /\ \E b \in Buffers : rate_limiter = RateLimiter(b)
    /\ _repo_cache = None
    /\ requests = << >>
    /\ op = "GitHubClient"
    /\ arg = << >>
    /\ ret = << >>
    /\ pc = "returned"

\* the state a call of the client leaves; the clock stops at MaxWaits
\* waits of an hour
ClientLeaves(left) ==
    /\ left.now <= MaxWaits * (timedelta(1) + 5)
    /\ rate_limiter' = left.rate_limiter
    /\ clock' = left.now
    /\ requests' = left.requests
    /\ ret' = left.outcome.value
    /\ pc' = IF left.outcome.raised THEN "raised" ELSE "returned"

\* a call and the rate limits GitHub reported to it
Call(name, first, refreshed) ==
    /\ op' = name
    /\ arg' = [now |-> clock, first |-> first, refreshed |-> refreshed]
    /\ UNCHANGED <<parser_objects, vendor_product_cache, tree_data,
                   cache_index, cache_files>>

GetRepository ==
    \E repo_name \in RepoNames, first \in RateLimits(clock),
       answer \in RepoAnswers :
        \E refreshed \in
               Refreshed(check_and_wait(rate_limiter, clock, first,
                                        first).now) :
            LET got == get_repository(rate_limiter, _repo_cache, clock,
                                      repo_name, first, refreshed, answer)
            IN  /\ ClientLeaves(got)
                /\ _repo_cache' = RepoCacheAfter(_repo_cache, got)
                /\ Call("get_repository", first, refreshed)

GetDirectoryContents ==
    \E path \in ClientPaths, first \in RateLimits(clock),
       answer \in ContentAnswers :
        \E refreshed \in
               Refreshed(check_and_wait(rate_limiter, clock, first,
                                        first).now) :
            /\ ClientLeaves(get_directory_contents(
                                rate_limiter, clock, path, first,
                                refreshed, answer))
            /\ Call("get_directory_contents", first, refreshed)
            /\ UNCHANGED _repo_cache

GetFileContent ==
    \E path \in ClientPaths, first \in RateLimits(clock),
       answer \in ContentAnswers :
        \E refreshed \in
               Refreshed(check_and_wait(rate_limiter, clock, first,
                                        first).now) :
            /\ ClientLeaves(get_file_content(rate_limiter, clock, path,
                                             first, refreshed, answer))
            /\ Call("get_file_content", first, refreshed)
            /\ UNCHANGED _repo_cache

NextClient ==
    \/ GetRepository
    \/ GetDirectoryContents
    \/ GetFileContent

SpecClient == InitClient /\ [][NextClient]_vars

\* the requests of the last call that consume the quota
ContentRequests ==
    {k \in 1..Len(requests) :
         requests[k].api \in {"get_repo", "get_contents"}}

\* C30: every GitHub content request made by GitHubClient (the first load
\* in get_repository, get_directory_contents, get_file_content) is
\* preceded by a rate-limit check, and no content request is issued while
\* the last observed remaining quota is below the buffer: when remaining
\* is below the buffer the client waits until after the reset time before
\* it issues the request.
C30_CheckedBeforeRequest ==
    \A k \in ContentRequests :
        /\ \E j \in 1..(k - 1) : requests[j].api = "get_rate_limit"
        /\ rate_limiter.remaining >= rate_limiter.buffer
        /\ arg.first.remaining < rate_limiter.buffer =>
               requests[k].at > arg.first.reset

\* the part of C30 the client keeps: a check before every content request
\* and, after a first reading below the buffer, no request until the
\* reset time is over
CheckedAndWaited ==
    \A k \in ContentRequests :
        /\ \E j \in 1..(k - 1) : requests[j].api = "get_rate_limit"
        /\ arg.first.remaining < rate_limiter.buffer =>
               requests[k].at > arg.first.reset
=============================================================================
